---- MODULE Spec2Model ----
(***************************************************************************)
(* Model of the quantitative pricing engine of capital-markets: the pool   *)
(* registry and linear price-impact model (libs/numeraire-wrapper pool     *)
(* module), the route finder, the swap quote path and the liquidity mock.  *)
(*                                                                         *)
(* JavaScript numbers are modelled as exact rationals <<n, d>> in lowest   *)
(* terms with d > 0, so 0.0004 is <<1, 2500>> and 0.05 is <<1, 20>>.        *)
(* Rounding of IEEE doubles is not modelled.                               *)
(***************************************************************************)
EXTENDS Integers, Sequences, FiniteSets, TLC

\* ---------------------------------------------------------------------------
\* Number arithmetic (+, -, *, /, Math.min, comparisons) on exact rationals
\* ---------------------------------------------------------------------------
Abs(x) == IF x < 0 THEN -x ELSE x

RECURSIVE GCD(_, _)
GCD(a, b) == IF b = 0 THEN Abs(a) ELSE GCD(b, a % b)

Rat(n, d) ==
    LET s == IF d < 0 THEN -1 ELSE 1
        g == GCD(Abs(n), Abs(d))
    IN  <<(s * n) \div g, (s * d) \div g>>

RInt(n) == <<n, 1>>

RNeg(a) == <<-a[1], a[2]>>

RAdd(a, b) ==
    LET g == GCD(a[2], b[2])
        l == (a[2] \div g) * b[2]
    IN  Rat(a[1] * (l \div a[2]) + b[1] * (l \div b[2]), l)

RSub(a, b) == RAdd(a, RNeg(b))

RMul(a, b) ==
    LET g1 == GCD(Abs(a[1]), b[2])
        g2 == GCD(Abs(b[1]), a[2])
    IN  Rat((a[1] \div g1) * (b[1] \div g2), (a[2] \div g2) * (b[2] \div g1))

RDiv(a, b) == RMul(a, Rat(b[2], b[1]))

RLe(a, b) == a[1] * b[2] <= b[1] * a[2]

RLt(a, b) == a[1] * b[2] < b[1] * a[2]

RMin(a, b) == IF RLe(a, b) THEN a ELSE b

RZero == RInt(0)

ROne == RInt(1)

\* ---------------------------------------------------------------------------
\* Bounds of the model
\* ---------------------------------------------------------------------------
MaxAmountSteps == 4

MaxIndex == 3

AmountStep == 25 * 1000

\* amounts a caller may pass: negative, zero, below and above every pool's
\* impact cap, and the 1,000,000 of the worked example
Amounts == {k * AmountStep : k \in -1..MaxAmountSteps} \cup {1000 * 1000}

TokenIndices == 0..MaxIndex

\* ---------------------------------------------------------------------------
\* Pool registry
\* ---------------------------------------------------------------------------
PRODUCTION_POOLS ==
    [susd    |-> "susdPoolAddress123456789",
     tripool |-> "tripoolAddress123456789",
     usds    |-> "usdsPoolAddress123456789"]

\* Object.keys(PRODUCTION_POOLS), in insertion order
PoolNames == <<"susd", "tripool", "usds">>

poolData ==
    [susd    |-> [address |-> PRODUCTION_POOLS.susd, name |-> "Stable USD Pool",
                  tokens |-> <<"USDC", "USDT", "PYUSD">>, decimals |-> <<6, 6, 6>>,
                  fees |-> [swapFee |-> Rat(4, 10000), adminFee |-> Rat(1, 10000)],
                  tvl |-> 100000000],
     tripool |-> [address |-> PRODUCTION_POOLS.tripool, name |-> "Tri-Pool",
                  tokens |-> <<"USDC", "USDT", "DAI">>, decimals |-> <<6, 6, 18>>,
                  fees |-> [swapFee |-> Rat(4, 10000), adminFee |-> Rat(1, 10000)],
                  tvl |-> 50000000],
     usds    |-> [address |-> PRODUCTION_POOLS.usds, name |-> "USD* Pool",
                  tokens |-> <<"USDC", "USDT", "USD*">>, decimals |-> <<6, 6, 6>>,
                  fees |-> [swapFee |-> Rat(3, 10000), adminFee |-> Rat(1, 10000)],
                  tvl |-> 75000000]]

\* the pool name whose key or address equals poolAddress, else 'unknown'
poolNameOf(poolAddress) ==
    IF \E i \in 1..Len(PoolNames) :
           PRODUCTION_POOLS[PoolNames[i]] = poolAddress \/ PoolNames[i] = poolAddress
    THEN LET i == CHOOSE k \in 1..Len(PoolNames) :
                      /\ (PRODUCTION_POOLS[PoolNames[k]] = poolAddress \/ PoolNames[k] = poolAddress)
                      /\ \A m \in 1..(k - 1) :
                             ~(PRODUCTION_POOLS[PoolNames[m]] = poolAddress \/ PoolNames[m] = poolAddress)
         IN  PoolNames[i]
    ELSE "unknown"

getPoolInfo(poolAddress) ==
    LET poolName == poolNameOf(poolAddress)
    IN  IF poolName \in DOMAIN poolData
        THEN poolData[poolName]
        ELSE [address |-> poolAddress, name |-> "Unknown Pool",
              tokens |-> <<"Token1", "Token2">>, decimals |-> <<6, 6>>,
              fees |-> [swapFee |-> Rat(4, 10000), adminFee |-> Rat(1, 10000)],
              tvl |-> 10000000]

\* pool arguments: the registry keys, a registry address, an unlisted address
PoolInputs == {"susd", "tripool", "usds", "tripoolAddress123456789", "otherPoolAddress"}

\* ---------------------------------------------------------------------------
\* Pricing model (amounts are rationals)
\* ---------------------------------------------------------------------------
\* a plausible slip: the share of the reference depth left over, not used up
impactFactorRemaining(amountIn, tvl) ==
    RDiv(RSub(RMul(RInt(tvl), Rat(1, 100)), amountIn), RMul(RInt(tvl), Rat(1, 100)))

\* amountIn / (poolInfo.tvl * 0.01)
impactFactor(amountIn, tvl) == RDiv(amountIn, RMul(RInt(tvl), Rat(1, 100)))

\* a plausible slip: the 5% cap left out
cappedImpactNoCap(factor) == RMul(factor, Rat(1, 2))

\* Math.min(impactFactor * 0.5, 0.05)
cappedImpact(factor) == RMin(RMul(factor, Rat(1, 2)), Rat(5, 100))

\* a plausible slip: the result left as a fraction
toPercentageOmitted(fraction) == fraction

\* priceImpact * 100
toPercentage(fraction) == RMul(fraction, RInt(100))

calculatePriceImpact(poolAddress, tokenInIndex, tokenOutIndex, amountIn) ==
    LET poolInfo    == getPoolInfo(poolAddress)
        priceImpact == cappedImpact(impactFactor(amountIn, poolInfo.tvl))
        fee         == RMul(amountIn, poolInfo.fees.swapFee)
        expectedOutput ==
            RMul(amountIn, RSub(RSub(ROne, priceImpact), poolInfo.fees.swapFee))
    IN  [priceImpact |-> toPercentage(priceImpact),
         expectedOutput |-> expectedOutput,
         fee |-> fee]

\* ---------------------------------------------------------------------------
\* Route finder
\* ---------------------------------------------------------------------------
\* poolInfo.tokens.includes(token)
includes(tokens, token) == \E i \in 1..Len(tokens) : tokens[i] = token

\* the for-loop over Object.keys(PRODUCTION_POOLS) with its break: the first
\* pool holding both tokens, '' when there is none
firstPoolWithBoth(fromToken, toToken) ==
    LET hits == {i \in 1..Len(PoolNames) :
                    /\ includes(getPoolInfo(PoolNames[i]).tokens, fromToken)
                    /\ includes(getPoolInfo(PoolNames[i]).tokens, toToken)}
    IN  IF hits = {} THEN ""
        ELSE PoolNames[CHOOSE i \in hits : \A k \in hits : i <= k]

findOptimalRoute(fromToken, toToken, amount) ==
    LET direct       == firstPoolWithBoth(fromToken, toToken)
        route        == IF direct = "" THEN <<fromToken, "USDC", toToken>>
                                       ELSE <<fromToken, toToken>>
        selectedPool == IF direct = "" THEN "tripool" ELSE direct
        tokenInIndex  == 0
        tokenOutIndex == 1
        priced == calculatePriceImpact(selectedPool, tokenInIndex, tokenOutIndex, amount)
    IN  [route |-> route,
         pools |-> <<selectedPool>>,
         expectedOutput |-> priced.expectedOutput,
         priceImpact |-> priced.priceImpact]

\* token symbols a caller may pass: every registry token and one unlisted
Tokens == {"USDC", "USDT", "PYUSD", "DAI", "USD*", "xGOLD"}

\* ---------------------------------------------------------------------------
\* Swap quotes
\* ---------------------------------------------------------------------------
RandomSteps == 4

\* the values Math.random() is taken to return, all within [0, 1)
RandomDraws == {Rat(k, RandomSteps) : k \in 0..(RandomSteps - 1)}

\* an optional parameter left out by the caller
Undefined == <<>>

\* slippage tolerances a caller may pass: none, 0, 0.5%, 1%, 50%
Tolerances == {Undefined, Rat(0, 1), Rat(5, 1000), Rat(1, 100), Rat(1, 2)}

\* params.slippageTolerance || 0.005: undefined and 0 are both falsy
toleranceOrDefault(slippageTolerance) ==
    IF slippageTolerance = Undefined \/ slippageTolerance = RZero
    THEN Rat(5, 1000)
    ELSE slippageTolerance

\* getSwapQuote(params), random being the value Math.random() returned
getSwapQuote(params, random) ==
    LET priceImpact == RMul(RMul(random, Rat(1, 100)), RInt(100))
        fee == RMul(params.exactAmountIn, Rat(3, 1000))
        expectedAmountOut ==
            RMul(params.exactAmountIn,
                 RSub(RSub(ROne, RDiv(priceImpact, RInt(100))), Rat(3, 1000)))
        slippageTolerance == toleranceOrDefault(params.slippageTolerance)
        minAmountOut == RMul(expectedAmountOut, RSub(ROne, slippageTolerance))
    IN  [expectedAmountOut |-> expectedAmountOut,
         minAmountOut |-> minAmountOut,
         priceImpact |-> priceImpact,
         fee |-> fee,
         route |-> <<params.in, params.out>>]

\* NumeraireService.getQuote(params): the pool is NUMERAIRE_POOL_ID, or susd
\* when the environment sets none (the case modelled)
NumeraireService_getQuote(params, random) ==
    LET quoteResult == getSwapQuote([pool |-> PRODUCTION_POOLS.susd,
                                     in |-> params.fromToken,
                                     out |-> params.toToken,
                                     exactAmountIn |-> params.fromAmount,
                                     slippageTolerance |-> params.slippageTolerance],
                                    random)
    IN  [expectedAmount |-> quoteResult.expectedAmountOut,
         minimumAmount |-> quoteResult.minAmountOut,
         priceImpact |-> quoteResult.priceImpact,
         route |-> quoteResult.route]

\* PriceService.getMockPrice: the listed pairs, any other pair priced at
\* Math.random() * 100
mockPrices ==
    {<<"USDC", "USD", Rat(1, 1)>>, <<"USDT", "USD", Rat(1, 1)>>,
     <<"xKES", "USD", Rat(66, 10000)>>, <<"xGOLD", "USD", Rat(2000, 1)>>,
     <<"xEUR", "USD", Rat(109, 100)>>, <<"KES", "USD", Rat(66, 10000)>>,
     <<"GOLD", "USD", Rat(2000, 1)>>, <<"EUR", "USD", Rat(109, 100)>>,
     <<"USD", "KES", Rat(150, 1)>>, <<"USD", "EUR", Rat(92, 100)>>}

getMockPrice(fromToken, toToken, random) ==
    IF \E m \in mockPrices : m[1] = fromToken /\ m[2] = toToken
    THEN (CHOOSE m \in mockPrices : m[1] = fromToken /\ m[2] = toToken)[3]
    ELSE RMul(random, RInt(100))

\* TradeService.getQuote(fromToken, toToken, amount): always asks for 0.5%
TradeService_getQuote(fromToken, toToken, amount, random, priceRandom) ==
    LET price == getMockPrice(fromToken, toToken, priceRandom)
        quote == NumeraireService_getQuote([fromToken |-> fromToken,
                                            toToken |-> toToken,
                                            fromAmount |-> amount,
                                            slippageTolerance |-> Rat(5, 1000)],
                                           random)
    IN  [fromToken |-> fromToken,
         toToken |-> toToken,
         fromAmount |-> amount,
         expectedToAmount |-> quote.expectedAmount,
         minToAmount |-> quote.minimumAmount,
         price |-> price,
         priceImpact |-> quote.priceImpact,
         route |-> quote.route]

\* tokens quoted: one pair of the stable pool, either way round
QuoteTokens == {"USDC", "USDT"}

\* ---------------------------------------------------------------------------
\* Liquidity
\* ---------------------------------------------------------------------------
MaxDepositTokens == 3

\* the strings the two Math.random() calls of a mock transaction can make
TxHashes == {"txhashA", "txhashB"}

\* per-token amounts a depositor may pass: negative, zero, two positive ones
DepositAmounts == {RInt(k * AmountStep) : k \in -1..2}

\* maxAmountsIn arrays: one amount per token, for up to MaxDepositTokens tokens
Deposits == UNION {[1..n -> DepositAmounts] : n \in 1..MaxDepositTokens}

\* pool arguments of the liquidity calls
LiquidityPools == {"susd", "tripool", "tripoolAddress123456789", "otherPoolAddress"}

\* Array.prototype.reduce((sum, amount) => sum + amount, 0)
RECURSIVE RSum(_)
RSum(seq) == IF seq = <<>> THEN RZero ELSE RAdd(seq[1], RSum(Tail(seq)))

\* a plausible slip: the 5% taken as a premium, not a discount
lpTokenAmountPremium(maxAmountsIn) == RMul(RSum(maxAmountsIn), Rat(105, 100))

\* totalAmountIn * 0.95, totalAmountIn being the sum of maxAmountsIn
lpTokenAmountOf(maxAmountsIn) == RMul(RSum(maxAmountsIn), Rat(95, 100))

\* params.maxAmountsIn.map(amount => amount * 0.99)
amountsInOf(maxAmountsIn) ==
    [i \in 1..Len(maxAmountsIn) |-> RMul(maxAmountsIn[i], Rat(99, 100))]

\* addLiquidity(params), txHash standing for the random transaction hash
addLiquidity(params, txHash) ==
    [txHash |-> txHash,
     lpTokenAmount |-> lpTokenAmountOf(params.maxAmountsIn),
     amountsIn |-> amountsInOf(params.maxAmountsIn)]

\* poolName === 'tripool' ? 3 : 2, poolName found by key or address
tokenCountOf(pool) == IF poolNameOf(pool) = "tripool" THEN 3 ELSE 2

\* removeLiquidity(params)
removeLiquidity(params, txHash) ==
    LET tokenCount     == tokenCountOf(params.pool)
        lpTokenValue   == RMul(params.lpTokenRedeemAmount, Rat(102, 100))
        amountPerToken == RDiv(lpTokenValue, RInt(tokenCount))
    IN  [txHash |-> txHash,
         amountsOut |-> [i \in 1..tokenCount |-> amountPerToken]]

\* ---------------------------------------------------------------------------
\* Risk analyzer (ExposureCalculator)
\*
\* A result that involves Math.sqrt is kept exact as c * sqrt(r1) * sqrt(r2)...:
\* [c |-> rational, rs |-> <<r1, r2, ...>>], a square root that is rational
\* being folded into c. Division by zero gives the IEEE values: Infinity is
\* c = <<1, 0>>, -Infinity is <<-1, 0>>, NaN is <<0, 0>>.
\* ---------------------------------------------------------------------------
MaxPortfolio == 3

Infinity == <<1, 0>>

NegInfinity == <<-1, 0>>

NaN == <<0, 0>>

Finite(c) == c[2] # 0

\* a rational as a result value
Num(q) == [c |-> q, rs |-> <<>>]

\* the largest k in lo..hi with k * k <= n
RECURSIVE ISqrtIn(_, _, _)
ISqrtIn(n, lo, hi) ==
    IF lo >= hi THEN lo
    ELSE CHOOSE root \in {IF mid * mid <= n THEN ISqrtIn(n, mid, hi)
                                            ELSE ISqrtIn(n, lo, mid - 1) :
                              mid \in {(lo + hi + 1) \div 2}} : TRUE

ISqrt(n) == ISqrtIn(n, 0, 46340)

IsSquare(n) == ISqrt(n) * ISqrt(n) = n

\* Math.sqrt of a rational
Math_sqrt(v) ==
    IF v[1] < 0 THEN Num(NaN)
    ELSE IF IsSquare(v[1]) /\ IsSquare(v[2]) THEN Num(<<ISqrt(v[1]), ISqrt(v[2])>>)
    ELSE [c |-> ROne, rs |-> <<v>>]

\* value * q for a rational q
Scale(value, q) ==
    IF ~Finite(value.c)
    THEN IF value.c = NaN \/ q = RZero THEN Num(NaN)
         ELSE IF q[1] > 0 THEN value ELSE Num(RNeg(value.c))
    ELSE IF RMul(value.c, q) = RZero THEN Num(RZero)
    ELSE [c |-> RMul(value.c, q), rs |-> value.rs]

\* value * Math.sqrt(q) for a rational q that is not a perfect square
TimesSqrt(value, q) ==
    IF ~Finite(value.c) \/ value.c = RZero THEN value
    ELSE [c |-> value.c, rs |-> Append(value.rs, q)]

\* x / value for a rational x and a value with at most one square root:
\* x / (c * sqrt(r)) = (x / (c * r)) * sqrt(r)
DivideBy(x, value) ==
    IF value.c = RZero
    THEN IF x = RZero THEN Num(NaN)
         ELSE IF x[1] > 0 THEN Num(Infinity) ELSE Num(NegInfinity)
    ELSE IF value.rs = <<>> THEN Num(RDiv(x, value.c))
    ELSE IF x = RZero THEN Num(RZero)
    ELSE [c |-> RDiv(RDiv(x, value.c), value.rs[1]), rs |-> value.rs]

\* The tables hold their decimals as rationals in lowest terms: 0.01 is
\* <<1, 100>>, 0.15 is <<3, 20>>, 0.95 is <<19, 20>>.
assetVolatility ==
    [USDC |-> <<1, 100>>, USDT |-> <<1, 100>>, yUSDC |-> <<1, 100>>,
     xGOLD |-> <<3, 20>>, xKES |-> <<2, 25>>, xEUR |-> <<3, 50>>]

correlationMatrix ==
    [USDC  |-> [USDC |-> <<1, 1>>, USDT |-> <<19, 20>>, yUSDC |-> <<99, 100>>,
                xGOLD |-> <<1, 10>>, xKES |-> <<1, 5>>, xEUR |-> <<3, 10>>],
     USDT  |-> [USDC |-> <<19, 20>>, USDT |-> <<1, 1>>, yUSDC |-> <<19, 20>>,
                xGOLD |-> <<1, 10>>, xKES |-> <<1, 5>>, xEUR |-> <<3, 10>>],
     yUSDC |-> [USDC |-> <<99, 100>>, USDT |-> <<19, 20>>, yUSDC |-> <<1, 1>>,
                xGOLD |-> <<1, 10>>, xKES |-> <<1, 5>>, xEUR |-> <<3, 10>>],
     xGOLD |-> [USDC |-> <<1, 10>>, USDT |-> <<1, 10>>, yUSDC |-> <<1, 10>>,
                xGOLD |-> <<1, 1>>, xKES |-> <<2, 5>>, xEUR |-> <<1, 2>>],
     xKES  |-> [USDC |-> <<1, 5>>, USDT |-> <<1, 5>>, yUSDC |-> <<1, 5>>,
                xGOLD |-> <<2, 5>>, xKES |-> <<1, 1>>, xEUR |-> <<3, 5>>],
     xEUR  |-> [USDC |-> <<3, 10>>, USDT |-> <<3, 10>>, yUSDC |-> <<3, 10>>,
                xGOLD |-> <<1, 2>>, xKES |-> <<3, 5>>, xEUR |-> <<1, 1>>]]

expectedReturns ==
    [USDC |-> <<1, 100>>, USDT |-> <<1, 100>>, yUSDC |-> <<9, 200>>,
     xGOLD |-> <<7, 100>>, xKES |-> <<3, 50>>, xEUR |-> <<3, 100>>]

\* table[key] || fallback: a missing key and 0 are both falsy
lookupOr(table, key, fallback) ==
    IF key \in DOMAIN table /\ table[key] # RZero THEN table[key] ELSE fallback

\* this.assetVolatility[symbol] || 0.05
volatilityOf(symbol) == lookupOr(assetVolatility, symbol, Rat(5, 100))

\* this.correlationMatrix[assetA]?.[assetB], 0 standing for undefined (both
\* are falsy where it is used)
correlationEntry(assetA, assetB) ==
    IF assetA \in DOMAIN correlationMatrix
    THEN lookupOr(correlationMatrix[assetA], assetB, RZero)
    ELSE RZero

\* a plausible slip: a pair found nowhere treated as uncorrelated
getCorrelationDefaultZero(assetA, assetB) ==
    IF correlationEntry(assetA, assetB) # RZero THEN correlationEntry(assetA, assetB)
    ELSE IF correlationEntry(assetB, assetA) # RZero THEN correlationEntry(assetB, assetA)
    ELSE RZero

getCorrelation(assetA, assetB) ==
    IF correlationEntry(assetA, assetB) # RZero THEN correlationEntry(assetA, assetB)
    ELSE IF correlationEntry(assetB, assetA) # RZero THEN correlationEntry(assetB, assetA)
    ELSE Rat(1, 2)

\* Object.keys(weights): the portfolio's symbols in order of first appearance
weightKeys(portfolio) ==
    LET firsts == {i \in 1..Len(portfolio) :
                      \A k \in 1..(i - 1) : portfolio[k].symbol # portfolio[i].symbol}
        nth[n \in 1..Cardinality(firsts)] ==
            CHOOSE i \in firsts : Cardinality({k \in firsts : k <= i}) = n
    IN  [n \in 1..Cardinality(firsts) |-> portfolio[nth[n]].symbol]

\* weights[asset.symbol] = asset.usdValue / totalValue for each entry in turn:
\* a later entry of the same symbol overwrites an earlier one
weightsOf(portfolio, totalValue) ==
    [sym \in {portfolio[i].symbol : i \in 1..Len(portfolio)} |->
        LET last == CHOOSE i \in 1..Len(portfolio) :
                        /\ portfolio[i].symbol = sym
                        /\ \A k \in (i + 1)..Len(portfolio) : portfolio[k].symbol # sym
        IN  RDiv(portfolio[last].usdValue, totalValue)]

\* a plausible slip: the covariance of a pair added once, not twice
covarianceTermOnce(weightI, weightJ, volatilityI, volatilityJ, correlation) ==
    RMul(RMul(RMul(weightI, weightJ), RMul(volatilityI, volatilityJ)), correlation)

\* 2 * weightI * weightJ * volatilityI * volatilityJ * correlation
covarianceTerm(weightI, weightJ, volatilityI, volatilityJ, correlation) ==
    RMul(RInt(2),
         RMul(RMul(RMul(weightI, weightJ), RMul(volatilityI, volatilityJ)), correlation))

\* the variance the two nested loops accumulate
portfolioVariance(assets, weights) ==
    LET n == Len(assets)
        own(i) == RMul(RMul(weights[assets[i]], weights[assets[i]]),
                       RMul(volatilityOf(assets[i]), volatilityOf(assets[i])))
        cov(i, j) == covarianceTerm(weights[assets[i]], weights[assets[j]],
                                    volatilityOf(assets[i]), volatilityOf(assets[j]),
                                    getCorrelation(assets[i], assets[j]))
        row(i) == RAdd(own(i), RSum([k \in 1..(n - i) |-> cov(i, i + k)]))
    IN  RSum([i \in 1..n |-> row(i)])

calculatePortfolioVolatility(assets, weights) ==
    Math_sqrt(portfolioVariance(assets, weights))

calculateExpectedReturn(assets, weights) ==
    RSum([i \in 1..Len(assets) |->
             RMul(weights[assets[i]], lookupOr(expectedReturns, assets[i], Rat(3, 100)))])

\* the marginal contribution accumulated for one portfolio entry
marginalContribution(portfolio, weights, symbol) ==
    LET weight == weights[symbol]
        other(k) ==
            IF portfolio[k].symbol # symbol
            THEN RMul(RMul(RMul(weight, weights[portfolio[k].symbol]),
                           getCorrelation(symbol, portfolio[k].symbol)),
                      RMul(volatilityOf(symbol), volatilityOf(portfolio[k].symbol)))
            ELSE RZero
    IN  RAdd(RMul(weight, volatilityOf(symbol)),
             RSum([k \in 1..Len(portfolio) |-> other(k)]))

calculateRiskExposure(portfolio, weights, portfolioVolatility) ==
    [sym \in {portfolio[i].symbol : i \in 1..Len(portfolio)} |->
        Scale(DivideBy(marginalContribution(portfolio, weights, sym), portfolioVolatility),
              RInt(100))]

\* a plausible slip: the undefined Sharpe ratio of the empty result as NaN
getEmptyRiskMetricsNaNSharpe ==
    [totalValue |-> RZero, volatility |-> Num(RZero), sharpeRatio |-> Num(NaN),
     maxDrawdown |-> Num(RZero), valueAtRisk |-> Num(RZero), riskExposure |-> <<>>]

getEmptyRiskMetrics ==
    [totalValue |-> RZero, volatility |-> Num(RZero), sharpeRatio |-> Num(RZero),
     maxDrawdown |-> Num(RZero), valueAtRisk |-> Num(RZero), riskExposure |-> <<>>]

\* portfolio.reduce((sum, asset) => sum + asset.usdValue, 0)
totalValueOf(portfolio) == RSum([i \in 1..Len(portfolio) |-> portfolio[i].usdValue])

\* calculateRiskMetrics(portfolio): the metrics returned, with the weights it
\* derived and the private methods it called on the way
calculateRiskMetrics(portfolio) ==
    LET totalValue == totalValueOf(portfolio)
    IN  IF totalValue = RZero
        THEN [metrics |-> getEmptyRiskMetrics,
              assets |-> <<>>, weights |-> <<>>,
              called |-> {"getEmptyRiskMetrics"}]
        ELSE LET assets         == weightKeys(portfolio)
                 weights        == weightsOf(portfolio, totalValue)
                 volatility     == calculatePortfolioVolatility(assets, weights)
                 riskFreeRate   == Rat(2, 100)
                 expectedReturn == calculateExpectedReturn(assets, weights)
                 sharpeRatio    == DivideBy(RSub(expectedReturn, riskFreeRate), volatility)
                 zScore95       == Rat(1645, 1000)
                 valueAtRisk    ==
                     Scale(TimesSqrt(Scale(volatility, zScore95), Rat(1, 252)), totalValue)
                 maxDrawdown    == Scale(volatility, Rat(25, 10))
                 riskExposure   == calculateRiskExposure(portfolio, weights, volatility)
             IN  [metrics |-> [totalValue |-> totalValue, volatility |-> volatility,
                               sharpeRatio |-> sharpeRatio, maxDrawdown |-> maxDrawdown,
                               valueAtRisk |-> valueAtRisk, riskExposure |-> riskExposure],
                  assets |-> assets, weights |-> weights,
                  called |-> {"calculatePortfolioVolatility", "calculateExpectedReturn",
                              "getCorrelation", "calculateRiskExposure"}
                             \ (IF Len(assets) < 2 THEN {"getCorrelation"} ELSE {})]

\* the square of a non-negative value with at most one square root
squareOf(value) ==
    RMul(RMul(value.c, value.c), IF value.rs = <<>> THEN ROne ELSE value.rs[1])

\* Math.max(value, q) for a positive rational q and a value that is NaN or
\* non-negative: NaN if value is NaN
Math_max(value, q) ==
    IF value.c = NaN THEN value
    ELSE IF RLt(squareOf(value), RMul(q, q)) THEN Num(q) ELSE value

\* Math.min(value, q), likewise
Math_min(value, q) ==
    IF value.c = NaN THEN value
    ELSE IF RLt(RMul(q, q), squareOf(value)) THEN Num(q) ELSE value

\* calculateSlippage(fromToken, toToken, amount): no validation of the amount
calculateSlippage(fromToken, toToken, amount) ==
    LET avgVolatility == RDiv(RAdd(volatilityOf(fromToken), volatilityOf(toToken)), RInt(2))
        amountFactor  == Math_sqrt(RDiv(amount, RInt(10 * 1000)))
        slippage      == Scale(amountFactor, RMul(avgVolatility, Rat(1, 10)))
    IN  Math_min(Math_max(slippage, Rat(1, 1000)), Rat(5, 100))

\* calculateSlippageTolerance: 1.5 times the estimated slippage
calculateSlippageTolerance(fromToken, toToken, amount) ==
    Scale(calculateSlippage(fromToken, toToken, amount), Rat(15, 10))

\* symbols a correlation may be asked for: every listed one and two unlisted
CorrelationSymbols == DOMAIN correlationMatrix \cup {"DAI", "xNGN"}

\* trade amounts: negative, zero, tiny, the reference amount, and large
SlippageAmounts ==
    {RInt(k * AmountStep) : k \in -1..2} \cup {RInt(100), RInt(10 * 1000), RInt(1000 * 1000)}

\* portfolio entries a caller may pass: two listed symbols and an unlisted one,
\* worth nothing or a positive amount; a symbol may appear more than once
RiskSymbols == {"USDC", "xGOLD", "DAI"}

PortfolioValues == {RInt(k * AmountStep) : k \in 0..2}

PortfolioAssets == [symbol : RiskSymbols, usdValue : PortfolioValues]

Portfolios == UNION {[1..n -> PortfolioAssets] : n \in 0..MaxPortfolio}

\* ---------------------------------------------------------------------------
\* Refreshable tables (YieldCurve.yieldSources, UsdEngine.stablecoins)
\*
\* Both tables are arrays of objects owned by the engine object. A method that
\* returns an element, or an array of elements, hands the caller references to
\* those objects: refs are the positions of the objects handed over, seen is
\* what the caller read in them at that moment.
\* ---------------------------------------------------------------------------
MaxRefreshes == 1

Null == <<>>

RMax(a, b) == IF RLe(a, b) THEN b ELSE a

\* yieldSources as constructed; apy 4.5 is <<9, 2>>, updatedAt counts refreshes
InitialYieldSources ==
    << [symbol |-> "USDC", apy |-> <<9, 2>>, provider |-> "Perena", lockupPeriod |-> 0,
        minAmount |-> 1, maxAmount |-> Null, tvl |-> 10 * 1000 * 1000, updatedAt |-> 0],
       [symbol |-> "USDC", apy |-> <<21, 5>>, provider |-> "Solend", lockupPeriod |-> 0,
        minAmount |-> 1, maxAmount |-> Null, tvl |-> 50 * 1000 * 1000, updatedAt |-> 0],
       [symbol |-> "USDC", apy |-> <<51, 10>>, provider |-> "Perena", lockupPeriod |-> 30,
        minAmount |-> 100, maxAmount |-> Null, tvl |-> 5 * 1000 * 1000, updatedAt |-> 0],
       [symbol |-> "USDC", apy |-> <<29, 5>>, provider |-> "Perena", lockupPeriod |-> 90,
        minAmount |-> 1000, maxAmount |-> Null, tvl |-> 2 * 1000 * 1000, updatedAt |-> 0],
       [symbol |-> "USDT", apy |-> <<43, 10>>, provider |-> "Perena", lockupPeriod |-> 0,
        minAmount |-> 1, maxAmount |-> Null, tvl |-> 8 * 1000 * 1000, updatedAt |-> 0],
       [symbol |-> "USDT", apy |-> <<4, 1>>, provider |-> "Solend", lockupPeriod |-> 0,
        minAmount |-> 1, maxAmount |-> Null, tvl |-> 40 * 1000 * 1000, updatedAt |-> 0] >>

\* stablecoins as constructed (name, issuer, collateralRatio and totalSupply,
\* which nothing reads or writes, are left out)
InitialStablecoins ==
    << [symbol |-> "USDC", yieldApy |-> <<0, 1>>, isYieldBearing |-> FALSE],
       [symbol |-> "USDT", yieldApy |-> <<0, 1>>, isYieldBearing |-> FALSE],
       [symbol |-> "yUSDC", yieldApy |-> <<9, 2>>, isYieldBearing |-> TRUE] >>

\* the positions of the elements a filter keeps, in order
positionsWhere(table, keep(_)) ==
    SelectSeq([i \in 1..Len(table) |-> i], LAMBDA i : keep(table[i]))

\* getYieldSources(symbol): a new array of the same objects
getYieldSources(sources, symbol) ==
    positionsWhere(sources, LAMBDA source : source.symbol = symbol)

\* getBestYieldSource: the eligible source of highest apy, the first of them
\* when several tie (the sort is stable), or null
getBestYieldSource(sources, symbol, amount, maxLockupPeriod) ==
    LET eligible == {i \in 1..Len(sources) :
                        /\ sources[i].symbol = symbol
                        /\ sources[i].minAmount <= amount
                        /\ (sources[i].maxAmount = Null \/ sources[i].maxAmount >= amount)
                        /\ sources[i].lockupPeriod <= maxLockupPeriod}
    IN  IF eligible = {} THEN <<>>
        ELSE << CHOOSE i \in eligible :
                    \A j \in eligible \ {i} :
                        \/ RLt(sources[j].apy, sources[i].apy)
                        \/ sources[j].apy = sources[i].apy /\ i < j >>

\* calculateExpectedYield: numbers computed from the best source, no object of
\* the table
calculateExpectedYield(sources, symbol, amount, durationDays) ==
    LET best == getBestYieldSource(sources, symbol, amount, durationDays)
    IN  IF best = <<>> THEN [yieldAmount |-> RZero, apy |-> RZero]
        ELSE [yieldAmount |-> RMul(RMul(RInt(amount), RDiv(sources[best[1]].apy, RInt(100))),
                                   Rat(durationDays, 365)),
              apy |-> sources[best[1]].apy]

\* Math.random() outcomes for one source of a refresh
VariationDraws == {Rat(0, 4), Rat(3, 4)}

\* updateYieldData: every source object is written in place
updateYieldData(sources, draws, time) ==
    [i \in 1..Len(sources) |->
        [sources[i] EXCEPT
            !.updatedAt = time,
            !.apy = RMax(RZero, RAdd(sources[i].apy,
                                     RMul(RSub(draws[i], Rat(1, 2)), Rat(2, 10))))]]

\* getYieldRate(stablecoinSymbol): yieldRates[symbol] || 0
getYieldRate(stablecoinSymbol) ==
    IF stablecoinSymbol = "yUSDC" THEN <<9, 2>>
    ELSE IF stablecoinSymbol = "yUSDT" THEN <<21, 5>>
    ELSE RZero

\* the position of the first yield-bearing stablecoin from position i on, or
\* one past the end
nextYieldBearing(coins, i) ==
    IF \E k \in i..Len(coins) : coins[k].isYieldBearing
    THEN CHOOSE k \in i..Len(coins) :
             coins[k].isYieldBearing /\ \A m \in i..(k - 1) : ~coins[m].isYieldBearing
    ELSE Len(coins) + 1

\* stablecoins.find(coin => coin.symbol === symbol): a position, or 0
findStablecoin(coins, symbol) ==
    IF \E k \in 1..Len(coins) : coins[k].symbol = symbol
    THEN CHOOSE k \in 1..Len(coins) :
             coins[k].symbol = symbol /\ \A m \in 1..(k - 1) : coins[m].symbol # symbol
    ELSE 0

handOver(from, table, refs) ==
    [from |-> from, refs |-> refs, seen |-> [k \in 1..Len(refs) |-> table[refs[k]]]]

YieldSymbols == {"USDC", "USDT", "DAI"}

YieldAmounts == {0, 100, 1000}

Lockups == {0, 30, 90}

StablecoinSymbols == {"USDC", "yUSDC", "DAI"}

\* ---------------------------------------------------------------------------
\* SessionManager
\*
\* sessions maps a token to its session, sessionsByPhone a phone number to a
\* token. Time is the number of 12-hour ticks since the manager was built.
\* ---------------------------------------------------------------------------
MaxSessions == 2

MaxTicks == 3

TickMs == 12 * 60 * 60 * 1000

SESSION_EXPIRY_MS == 24 * 60 * 60 * 1000

Phones == {"+254700000001", "+254700000002"}

UserIds == {"user1"}

\* Partial<SessionState> values a caller may pass to updateSession
SessionUpdates ==
    {[isVerified |-> TRUE]} \cup {[phoneNumber |-> phone] : phone \in Phones}

\* getSession / getSessionByPhone / updateSession returning null
NoSession == [found |-> FALSE]

Found(session) == [found |-> TRUE, session |-> session]

\* now.getTime() - session.lastActivity.getTime() > this.SESSION_EXPIRY_MS
isExpired(session, time) == (time - session.lastActivity) * TickMs > SESSION_EXPIRY_MS

\* map.delete(key)
mapDelete(map, key) == [k \in DOMAIN map \ {key} |-> map[k]]

\* map.set(key, value)
mapSet(map, key, value) == [k \in DOMAIN map \cup {key} |-> IF k = key THEN value ELSE map[k]]

\* getSession(token) on the two maps: the maps afterwards and the value returned
getSession(store, token, time) ==
    IF token \notin DOMAIN store.sessions
    THEN [store |-> store, result |-> NoSession]
    ELSE IF isExpired(store.sessions[token], time)
    THEN [store |-> [sessions |-> mapDelete(store.sessions, token),
                     sessionsByPhone |-> mapDelete(store.sessionsByPhone,
                                                   store.sessions[token].phoneNumber)],
          result |-> NoSession]
    ELSE LET touched == [store.sessions[token] EXCEPT !.lastActivity = time]
         IN  [store |-> [sessions |-> mapSet(store.sessions, token, touched),
                         sessionsByPhone |-> store.sessionsByPhone],
              result |-> Found(touched)]

\* { ...session, ...updates, lastActivity: new Date() }
applyUpdates(session, updates, time) ==
    [field \in DOMAIN session |->
        IF field = "lastActivity" THEN time
        ELSE IF field \in DOMAIN updates THEN updates[field]
        ELSE session[field]]

updateSession(store, token, updates, time) ==
    LET got == getSession(store, token, time)
    IN  IF ~got.result.found THEN got
        ELSE LET updatedSession == applyUpdates(got.result.session, updates, time)
             IN  [store |-> [sessions |-> mapSet(got.store.sessions, token, updatedSession),
                             sessionsByPhone |-> got.store.sessionsByPhone],
                  result |-> Found(updatedSession)]

deleteSession(store, token) ==
    IF token \notin DOMAIN store.sessions
    THEN [store |-> store, result |-> FALSE]
    ELSE [store |-> [sessions |-> mapDelete(store.sessions, token),
                     sessionsByPhone |-> mapDelete(store.sessionsByPhone,
                                                   store.sessions[token].phoneNumber)],
          result |-> TRUE]

cleanupExpiredSessions(store, time) ==
    LET expired == {t \in DOMAIN store.sessions : isExpired(store.sessions[t], time)}
        phones  == {store.sessions[t].phoneNumber : t \in expired}
    IN  [sessions |-> [t \in DOMAIN store.sessions \ expired |-> store.sessions[t]],
         sessionsByPhone |-> [ph \in DOMAIN store.sessionsByPhone \ phones |->
                                 store.sessionsByPhone[ph]]]

\* ---------------------------------------------------------------------------
\* WhatsApp bot: webhook controllers, BotService, AuthService, WalletService.
\* A message body is the sequence of its characters, so that toLowerCase,
\* trim, startsWith and split are computed as String.prototype computes them.
\* ---------------------------------------------------------------------------
MaxHandlers == 2

MaxMessages == 2

UpperToLower ==
    [A |-> "a", B |-> "b", C |-> "c", D |-> "d", E |-> "e", F |-> "f", G |-> "g",
     H |-> "h", I |-> "i", J |-> "j", K |-> "k", L |-> "l", M |-> "m", N |-> "n",
     O |-> "o", P |-> "p", Q |-> "q", R |-> "r", S |-> "s", T |-> "t", U |-> "u",
     V |-> "v", W |-> "w", X |-> "x", Y |-> "y", Z |-> "z"]

toLowerCase(text) ==
    [i \in 1..Len(text) |->
        IF text[i] \in DOMAIN UpperToLower THEN UpperToLower[text[i]] ELSE text[i]]

trim(text) ==
    LET kept == {i \in 1..Len(text) : text[i] # " "}
    IN  IF kept = {} THEN <<>>
        ELSE SubSeq(text, CHOOSE i \in kept : \A j \in kept : i <= j,
                          CHOOSE i \in kept : \A j \in kept : j <= i)

startsWith(text, prefix) ==
    Len(text) >= Len(prefix) /\ SubSeq(text, 1, Len(prefix)) = prefix

\* text.split(' ')
RECURSIVE split(_)
split(text) ==
    LET spaces == {i \in 1..Len(text) : text[i] = " "}
    IN  IF spaces = {} THEN <<text>>
        ELSE LET first == CHOOSE i \in spaces : \A j \in spaces : i <= j
             IN  <<SubSeq(text, 1, first - 1)>> \o split(SubSeq(text, first + 1, Len(text)))

startText == <<"s", "t", "a", "r", "t">>

helpText == <<"h", "e", "l", "p">>

portfolioText == <<"p", "o", "r", "t", "f", "o", "l", "i", "o">>

swapPrefix == <<"s", "w", "a", "p", " ">>

toWord == <<"t", "o">>

\* 'swap 1 a to b': a swap command in the format handleSwapCommand accepts
swapText == swapPrefix \o <<"1", " ", "a", " ">> \o toWord \o <<" ", "b">>

\* the text bodies a user may send
MessageBodies ==
    {startText, <<"S", "T", "A", "R", "T">>, startText \o <<" ">>,
     helpText, <<"H", "e", "l", "p">>, portfolioText, swapText,
     swapPrefix \o <<"1">>}

\* body.toLowerCase(), body.toLowerCase().trim() and command.split(' ') of
\* each of these bodies
lowerCased == [body \in MessageBodies |-> toLowerCase(body)]

commands == [body \in MessageBodies |-> trim(lowerCased[body])]

splitParts == [command \in {commands[body] : body \in MessageBodies} |-> split(command)]

Controllers == {"WhatsappController", "MessageController"}

getVerificationMessage ==
    "Please verify your phone number to start trading. Reply with \"start\" to begin."

getHelpMessage == "Available Commands"

UnknownCommand == "Unknown command. Type \"help\" to see available commands."

ErrorProcessing == "Sorry, there was an error processing your request. Please try again."

WelcomeCreated == "Welcome! Your wallet has been created."

WelcomeBack == "Welcome back! Type \"help\" to see available commands."

\* a row of the User table as prisma.user.upsert creates it
newUser == [isVerified |-> FALSE, walletAddress |-> Null]

\* the rows the User table may hold when the service starts
UserTables ==
    UNION {[known -> {[isVerified |-> v, walletAddress |-> Null] : v \in BOOLEAN}] :
              known \in SUBSET Phones}

\* AuthService.getOrCreateSession: the upsert of the user and the session
\* handed back; a user's id is named by the phone number it was created for
getOrCreateSession(table, phoneNumber) ==
    LET after == IF phoneNumber \in DOMAIN table THEN table
                 ELSE mapSet(table, phoneNumber, newUser)
        user  == after[phoneNumber]
    IN  [users |-> after,
         session |-> [userId |-> phoneNumber, isVerified |-> user.isVerified,
                      walletAddress |-> user.walletAddress]]

\* the controllers' check: !session.isVerified && message.text?.body !== 'start'
controllerRejectsNothing(session, body) == FALSE

controllerRejects(session, body) == ~session.isVerified /\ body # startText

\* BotService.processMessage's own check, on the lower-cased body
processMessageRejects(session, body) ==
    ~session.isVerified /\ lowerCased[body] # startText

commandOf(body) == commands[body]

\* the switch of BotService.processMessage (bot.service.ts)
route(command) ==
    IF startsWith(command, swapPrefix) THEN "swap"
    ELSE IF command = portfolioText THEN "portfolio"
    ELSE IF command = startText THEN "start"
    ELSE IF command = helpText THEN "help"
    ELSE "unknown"

\* the if-chain of the BotService the MessageController uses: no 'start' case
routeWithoutStart(command) ==
    IF startsWith(command, swapPrefix) THEN "swap"
    ELSE IF command = portfolioText THEN "portfolio"
    ELSE IF command = helpText THEN "help"
    ELSE "unknown"

serviceCall(name, session) ==
    [service |-> name, userId |-> session.userId, isVerified |-> session.isVerified]

\* handleSwapCommand: the calls it makes and the reply, for each way the
\* trade service may answer
handleSwapCommand(command, session) ==
    LET parts == splitParts[command]
    IN  IF Len(parts) # 5 \/ parts[4] # toWord
        THEN {[calls |-> {}, reply |-> "Invalid swap format"]}
        ELSE {[calls |-> {serviceCall("TradeService.getQuote", session)},
               reply |-> "Failed to execute swap"],
              [calls |-> {serviceCall("TradeService.getQuote", session),
                          serviceCall("TradeService.executeSwap", session)},
               reply |-> "Failed to execute swap"],
              [calls |-> {serviceCall("TradeService.getQuote", session),
                          serviceCall("TradeService.executeSwap", session)},
               reply |-> "Swap completed"]}

handlePortfolioCommand(session) ==
    {[calls |-> {serviceCall("PortfolioService.getPortfolio", session)}, reply |-> text] :
        text \in {"Your Portfolio", "Failed to fetch portfolio"}}

\* what a routed command other than 'start' does
handleCommand(kind, command, session) ==
    IF kind = "swap" THEN handleSwapCommand(command, session)
    ELSE IF kind = "portfolio" THEN handlePortfolioCommand(session)
    ELSE IF kind = "help" THEN {[calls |-> {}, reply |-> getHelpMessage]}
    ELSE {[calls |-> {}, reply |-> UnknownCommand]}

\* prisma.wallet.findUnique({ where: { userId } })
findUniqueWallet(rows, userId) == {row \in rows : row.userId = userId}

\* Keypair.generate(): a fresh key, named by the order of generation
Keypair_generate(made, userId) == [owner |-> userId, nth |-> Len(made) + 1]

\* saveWallet (walletStore): the Wallet rows it may leave. The schema declares
\* Wallet.userId unique, so a second row for a user is either refused (the
\* empty outcome means it threw) or, by a store that does not go through that
\* table, kept.
saveWallet(rows, userId, publicKey) ==
    IF findUniqueWallet(rows, userId) = {}
    THEN {[threw |-> FALSE, rows |-> rows \cup {[userId |-> userId, publicKey |-> publicKey]}]}
    ELSE {[threw |-> TRUE, rows |-> rows],
          [threw |-> FALSE, rows |-> rows \cup {[userId |-> userId, publicKey |-> publicKey]}]}

\* the keypairs generated for a user
generatedFor(made, userId) == {i \in 1..Len(made) : made[i] = userId}

NoUserSession == [userId |-> "", isVerified |-> FALSE, walletAddress |-> Null]

IdleHandler ==
    [pc |-> "idle", via |-> "none", from |-> "", body |-> <<>>,
     session |-> NoUserSession, publicKey |-> Null, afterStart |-> FALSE]

\* ---------------------------------------------------------------------------
\* State
\* ---------------------------------------------------------------------------
VARIABLES
    request,      \* the call a client makes into the pool module
    pricing,      \* what the pool module returned for it, once it has
    prevPrice,    \* the client's previous price evaluation: pool, amount, impact
    quoteRequest, \* the quote a client asks for
    quote,        \* the quote returned, once it has been
    prevQuote,    \* the quote returned to the same request before a retry
    liqRequest,   \* the liquidity call a client makes
    liquidity,    \* what the liquidity call returned, once it has
    prevDeposit,  \* the deposit whose minted LP amount is being redeemed
    riskRequest,  \* the portfolio a caller asks risk metrics for
    risk,         \* the metrics returned, once they have been
    riskTrace,    \* the weights derived and the private methods called for it
    yieldSources, \* YieldCurve.yieldSources
    stablecoins,  \* UsdEngine.stablecoins
    tableRequest, \* the call a reader of a table makes
    usdCall,      \* the UsdEngine call in flight, suspended at an await
    held,         \* what the reader was handed
    now,          \* the number of refreshes so far, as the time of day
    sessions,     \* SessionManager.sessions
    sessionsByPhone, \* SessionManager.sessionsByPhone
    clock,        \* the time, in ticks
    created,      \* the phone number each token was created for, in order
    lastCall,     \* the last SessionManager call and what it returned
    users,        \* the User table: phone number -> [isVerified, walletAddress]
    wallets,      \* the Wallet table: the rows saved, as [userId, publicKey]
    handlers,     \* the webhook requests in flight, each at its next await
    generated,    \* the keypairs Keypair.generate() has made, by user, in order
    reached,      \* the TradeService / PortfolioService calls made, with the session they were made for
    answered,     \* the messages answered so far, with the reply each one got
    completed,    \* the users whose 'start' was answered with a welcome
    received      \* how many messages have come in

pricingVars == <<request, pricing, prevPrice>>

quoteVars == <<quoteRequest, quote, prevQuote>>

liquidityVars == <<liqRequest, liquidity, prevDeposit>>

riskVars == <<riskRequest, risk, riskTrace>>

refreshVars == <<yieldSources, stablecoins, tableRequest, usdCall, held, now>>

sessionVars == <<sessions, sessionsByPhone, clock, created, lastCall>>

botVars == <<users, wallets, handlers, generated, reached, answered, completed, received>>

vars == <<pricingVars, quoteVars, liquidityVars, riskVars, refreshVars, sessionVars, botVars>>

NoRequest == [op |-> "none", args |-> <<>>]

NoPricing == [op |-> "none", status |-> "none", result |-> <<>>]

NoPrice == [valid |-> FALSE, pool |-> "", amountIn |-> RZero, priceImpact |-> RZero]

NoDeposit == [valid |-> FALSE, pool |-> "", maxAmountsIn |-> <<>>, lpTokenAmount |-> RZero]

\* each component before any client has called it
PricingIdle == request = NoRequest /\ pricing = NoPricing /\ prevPrice = NoPrice

QuoteIdle == quoteRequest = NoRequest /\ quote = NoPricing /\ prevQuote = NoPricing

LiquidityIdle == liqRequest = NoRequest /\ liquidity = NoPricing /\ prevDeposit = NoDeposit

NoTrace == [assets |-> <<>>, weights |-> <<>>, called |-> {}]

RiskIdle == riskRequest = NoRequest /\ risk = NoPricing /\ riskTrace = NoTrace

NoCall == [op |-> "none", caller |-> "none", at |-> 0]

NoSessionCall ==
    [op |-> "none", at |-> 0, token |-> 0, expired |-> FALSE, result |-> NoSession]

SessionIdle ==
    /\ sessions = <<>>
    /\ sessionsByPhone = <<>>
    /\ clock = 0
    /\ created = <<>>
    /\ lastCall = NoSessionCall

BotQuiet ==
    /\ wallets = {}
    /\ handlers = [h \in 1..MaxHandlers |-> IdleHandler]
    /\ generated = <<>>
    /\ reached = {}
    /\ answered = {}
    /\ completed = {}
    /\ received = 0

BotIdle == users = <<>> /\ BotQuiet

NothingHeld == [from |-> "none", refs |-> <<>>, seen |-> <<>>]

RefreshIdle ==
    /\ yieldSources = InitialYieldSources
    /\ stablecoins = InitialStablecoins
    /\ tableRequest = NoRequest
    /\ usdCall = NoCall
    /\ held = NothingHeld
    /\ now = 0

\* ---------------------------------------------------------------------------
\* Pricing model and route finder: a client's calls
\* ---------------------------------------------------------------------------
\* the calls a client can make: calculatePriceImpact(poolAddress, tokenInIndex,
\* tokenOutIndex, amountIn) and findOptimalRoute(fromToken, toToken, amount)
PricingRequests ==
    {[op |-> "calculatePriceImpact", args |-> <<p, i, j, RInt(a)>>] :
        p \in PoolInputs, i \in TokenIndices, j \in TokenIndices, a \in Amounts}
    \cup
    {[op |-> "findOptimalRoute", args |-> <<f, t, RInt(a)>>] :
        f \in Tokens, t \in Tokens, a \in Amounts}

\* position of the amount among a call's arguments
amountArg(op) == IF op = "calculatePriceImpact" THEN 4 ELSE 3

\* the pool a call evaluated the pricing model on
pricedPool(req, res) ==
    IF req.op = "calculatePriceImpact" THEN getPoolInfo(req.args[1]).address
    ELSE getPoolInfo(res.result.pools[1]).address

InitPricing ==
    /\ request \in PricingRequests
    /\ pricing = NoPricing
    /\ prevPrice = NoPrice
    /\ QuoteIdle
    /\ LiquidityIdle
    /\ RiskIdle
    /\ RefreshIdle
    /\ SessionIdle
    /\ BotIdle

\* calculatePriceImpact: no validation, no throw; always resolves with a price
CalculatePriceImpact ==
    /\ request.op = "calculatePriceImpact"
    /\ pricing.op = "none"
    /\ pricing' = [op |-> "calculatePriceImpact", status |-> "ok",
                   result |-> calculatePriceImpact(request.args[1], request.args[2],
                                                   request.args[3], request.args[4])]
    /\ UNCHANGED <<request, prevPrice, quoteVars, liquidityVars, riskVars, refreshVars, sessionVars, botVars>>

\* findOptimalRoute: always resolves with a route
FindOptimalRoute ==
    /\ request.op = "findOptimalRoute"
    /\ pricing.op = "none"
    /\ pricing' = [op |-> "findOptimalRoute", status |-> "ok",
                   result |-> findOptimalRoute(request.args[1], request.args[2],
                                               request.args[3])]
    /\ UNCHANGED <<request, prevPrice, quoteVars, liquidityVars, riskVars, refreshVars, sessionVars, botVars>>

\* the client repeats its call with another amount, keeping the answer to the
\* first one for comparison (the engine itself keeps nothing between calls)
Requote ==
    /\ pricing.op # "none"
    /\ ~prevPrice.valid
    /\ \E amount \in Amounts :
           request' = [request EXCEPT !.args[amountArg(request.op)] = RInt(amount)]
    /\ prevPrice' = [valid |-> TRUE, pool |-> pricedPool(request, pricing),
                     amountIn |-> request.args[amountArg(request.op)],
                     priceImpact |-> pricing.result.priceImpact]
    /\ pricing' = NoPricing
    /\ UNCHANGED <<quoteVars, liquidityVars, riskVars, refreshVars, sessionVars, botVars>>

NextPricing == CalculatePriceImpact \/ FindOptimalRoute \/ Requote

SpecPricing == InitPricing /\ [][NextPricing]_vars

\* ---------------------------------------------------------------------------
\* Swap quotes: a client's calls
\* ---------------------------------------------------------------------------
\* getSwapQuote({pool, in, out, exactAmountIn, slippageTolerance?}),
\* NumeraireService.getQuote({fromToken, toToken, fromAmount, slippageTolerance})
\* and TradeService.getQuote(fromToken, toToken, amount)
QuoteRequests ==
    {[op |-> "getSwapQuote", args |-> <<p, f, t, RInt(a), s>>] :
        p \in {"susd"}, f \in QuoteTokens, t \in QuoteTokens, a \in Amounts,
        s \in Tolerances}
    \cup
    {[op |-> "NumeraireService.getQuote", args |-> <<f, t, RInt(a), s>>] :
        f \in QuoteTokens, t \in QuoteTokens, a \in Amounts, s \in Tolerances}
    \cup
    {[op |-> "TradeService.getQuote", args |-> <<f, t, RInt(a)>>] :
        f \in QuoteTokens, t \in QuoteTokens, a \in Amounts}

InitQuote ==
    /\ quoteRequest \in QuoteRequests
    /\ quote = NoPricing
    /\ prevQuote = NoPricing
    /\ PricingIdle
    /\ LiquidityIdle
    /\ RiskIdle
    /\ RefreshIdle
    /\ SessionIdle
    /\ BotIdle

GetSwapQuote ==
    /\ quoteRequest.op = "getSwapQuote"
    /\ quote.op = "none"
    /\ \E random \in RandomDraws :
           quote' = [op |-> "getSwapQuote", status |-> "ok",
                     result |-> getSwapQuote([pool |-> quoteRequest.args[1],
                                              in |-> quoteRequest.args[2],
                                              out |-> quoteRequest.args[3],
                                              exactAmountIn |-> quoteRequest.args[4],
                                              slippageTolerance |-> quoteRequest.args[5]],
                                             random)]
    /\ UNCHANGED <<quoteRequest, prevQuote, pricingVars, liquidityVars, riskVars, refreshVars, sessionVars, botVars>>

NumeraireGetQuote ==
    /\ quoteRequest.op = "NumeraireService.getQuote"
    /\ quote.op = "none"
    /\ \E random \in RandomDraws :
           quote' = [op |-> "NumeraireService.getQuote", status |-> "ok",
                     result |-> NumeraireService_getQuote(
                                    [fromToken |-> quoteRequest.args[1],
                                     toToken |-> quoteRequest.args[2],
                                     fromAmount |-> quoteRequest.args[3],
                                     slippageTolerance |-> quoteRequest.args[4]],
                                    random)]
    /\ UNCHANGED <<quoteRequest, prevQuote, pricingVars, liquidityVars, riskVars, refreshVars, sessionVars, botVars>>

TradeGetQuote ==
    /\ quoteRequest.op = "TradeService.getQuote"
    /\ quote.op = "none"
    /\ \E random \in RandomDraws, priceRandom \in RandomDraws :
           quote' = [op |-> "TradeService.getQuote", status |-> "ok",
                     result |-> TradeService_getQuote(quoteRequest.args[1],
                                                      quoteRequest.args[2],
                                                      quoteRequest.args[3],
                                                      random, priceRandom)]
    /\ UNCHANGED <<quoteRequest, prevQuote, pricingVars, liquidityVars, riskVars, refreshVars, sessionVars, botVars>>

\* the client retries the identical request, keeping the first answer
RetryQuote ==
    /\ quote.op # "none"
    /\ prevQuote.op = "none"
    /\ prevQuote' = quote
    /\ quote' = NoPricing
    /\ UNCHANGED <<quoteRequest, pricingVars, liquidityVars, riskVars, refreshVars, sessionVars, botVars>>

NextQuote == GetSwapQuote \/ NumeraireGetQuote \/ TradeGetQuote \/ RetryQuote

SpecQuote == InitQuote /\ [][NextQuote]_vars

\* ---------------------------------------------------------------------------
\* Liquidity: a client's calls
\* ---------------------------------------------------------------------------
\* addLiquidity({pool, maxAmountsIn}) and removeLiquidity({pool,
\* lpTokenRedeemAmount})
LiquidityRequests ==
    {[op |-> "addLiquidity", args |-> <<p, d>>] : p \in LiquidityPools, d \in Deposits}
    \cup
    {[op |-> "removeLiquidity", args |-> <<p, RInt(a)>>] :
        p \in LiquidityPools, a \in Amounts}

InitLiquidity ==
    /\ liqRequest \in LiquidityRequests
    /\ liquidity = NoPricing
    /\ prevDeposit = NoDeposit
    /\ PricingIdle
    /\ QuoteIdle
    /\ RiskIdle
    /\ RefreshIdle
    /\ SessionIdle
    /\ BotIdle

AddLiquidity ==
    /\ liqRequest.op = "addLiquidity"
    /\ liquidity.op = "none"
    /\ \E txHash \in TxHashes :
           liquidity' = [op |-> "addLiquidity", status |-> "ok",
                         result |-> addLiquidity([pool |-> liqRequest.args[1],
                                                  maxAmountsIn |-> liqRequest.args[2]],
                                                 txHash)]
    /\ UNCHANGED <<liqRequest, prevDeposit, pricingVars, quoteVars, riskVars, refreshVars, sessionVars, botVars>>

RemoveLiquidity ==
    /\ liqRequest.op = "removeLiquidity"
    /\ liquidity.op = "none"
    /\ \E txHash \in TxHashes :
           liquidity' = [op |-> "removeLiquidity", status |-> "ok",
                         result |-> removeLiquidity(
                                        [pool |-> liqRequest.args[1],
                                         lpTokenRedeemAmount |-> liqRequest.args[2]],
                                        txHash)]
    /\ UNCHANGED <<liqRequest, prevDeposit, pricingVars, quoteVars, riskVars, refreshVars, sessionVars, botVars>>

\* the depositor immediately redeems the whole LP amount just minted, from the
\* same pool
RedeemMinted ==
    /\ liquidity.op = "addLiquidity"
    /\ liqRequest' = [op |-> "removeLiquidity",
                      args |-> <<liqRequest.args[1], liquidity.result.lpTokenAmount>>]
    /\ prevDeposit' = [valid |-> TRUE, pool |-> liqRequest.args[1],
                       maxAmountsIn |-> liqRequest.args[2],
                       lpTokenAmount |-> liquidity.result.lpTokenAmount]
    /\ liquidity' = NoPricing
    /\ UNCHANGED <<pricingVars, quoteVars, riskVars, refreshVars, sessionVars, botVars>>

NextLiquidity == AddLiquidity \/ RemoveLiquidity \/ RedeemMinted

SpecLiquidity == InitLiquidity /\ [][NextLiquidity]_vars

\* ---------------------------------------------------------------------------
\* Risk analyzer: a caller's calls
\* ---------------------------------------------------------------------------
InitRisk ==
    /\ riskRequest \in
           {[op |-> "calculateRiskMetrics", args |-> <<p>>] : p \in Portfolios}
           \cup {[op |-> "getCorrelation", args |-> <<a, b>>] :
                    a \in CorrelationSymbols, b \in CorrelationSymbols}
           \cup {[op |-> o, args |-> <<a, b, amount>>] :
                    o \in {"calculateSlippage", "calculateSlippageTolerance"},
                    a \in RiskSymbols, b \in RiskSymbols, amount \in SlippageAmounts}
    /\ risk = NoPricing
    /\ riskTrace = NoTrace
    /\ PricingIdle
    /\ QuoteIdle
    /\ LiquidityIdle
    /\ RefreshIdle
    /\ SessionIdle
    /\ BotIdle

\* calculateRiskMetrics(portfolio): no validation, no throw
CalculateRiskMetrics ==
    /\ riskRequest.op = "calculateRiskMetrics"
    /\ risk.op = "none"
    /\ LET returned == calculateRiskMetrics(riskRequest.args[1])
       IN  /\ risk' = [op |-> "calculateRiskMetrics", status |-> "ok",
                       result |-> returned.metrics]
           /\ riskTrace' = [assets |-> returned.assets, weights |-> returned.weights,
                            called |-> returned.called]
    /\ UNCHANGED <<riskRequest, pricingVars, quoteVars, liquidityVars, refreshVars, sessionVars, botVars>>

\* getCorrelation(assetA, assetB), as the risk computations call it
GetCorrelation ==
    /\ riskRequest.op = "getCorrelation"
    /\ risk.op = "none"
    /\ risk' = [op |-> "getCorrelation", status |-> "ok",
                result |-> getCorrelation(riskRequest.args[1], riskRequest.args[2])]
    /\ UNCHANGED <<riskRequest, riskTrace, pricingVars, quoteVars, liquidityVars, refreshVars, sessionVars, botVars>>

\* calculateSlippage(fromToken, toToken, amount)
CalculateSlippage ==
    /\ riskRequest.op = "calculateSlippage"
    /\ risk.op = "none"
    /\ risk' = [op |-> "calculateSlippage", status |-> "ok",
                result |-> calculateSlippage(riskRequest.args[1], riskRequest.args[2],
                                             riskRequest.args[3])]
    /\ UNCHANGED <<riskRequest, riskTrace, pricingVars, quoteVars, liquidityVars, refreshVars, sessionVars, botVars>>

\* calculateSlippageTolerance(fromToken, toToken, amount)
CalculateSlippageTolerance ==
    /\ riskRequest.op = "calculateSlippageTolerance"
    /\ risk.op = "none"
    /\ risk' = [op |-> "calculateSlippageTolerance", status |-> "ok",
                result |-> calculateSlippageTolerance(riskRequest.args[1], riskRequest.args[2],
                                                      riskRequest.args[3])]
    /\ UNCHANGED <<riskRequest, riskTrace, pricingVars, quoteVars, liquidityVars, refreshVars, sessionVars, botVars>>

NextRisk ==
    \/ CalculateRiskMetrics
    \/ GetCorrelation
    \/ CalculateSlippage
    \/ CalculateSlippageTolerance

SpecRisk == InitRisk /\ [][NextRisk]_vars

\* ---------------------------------------------------------------------------
\* Refreshable tables: a reader's call, and the refreshes that follow it
\* ---------------------------------------------------------------------------
InitRefresh ==
    /\ yieldSources = InitialYieldSources
    /\ stablecoins = InitialStablecoins
    /\ tableRequest \in
           {[op |-> "getYieldSources", args |-> <<symbol>>] : symbol \in YieldSymbols}
           \cup {[op |-> o, args |-> <<symbol, amount, days>>] :
                    o \in {"getBestYieldSource", "calculateExpectedYield"},
                    symbol \in YieldSymbols, amount \in YieldAmounts, days \in Lockups}
           \cup {[op |-> "listStablecoins", args |-> <<>>]}
           \cup {[op |-> "getStablecoin", args |-> <<symbol>>] : symbol \in StablecoinSymbols}
    /\ usdCall = NoCall
    /\ held = NothingHeld
    /\ now = 0
    /\ PricingIdle
    /\ QuoteIdle
    /\ LiquidityIdle
    /\ RiskIdle
    /\ SessionIdle
    /\ BotIdle

Unserved == held.from = "none" /\ usdCall.op = "none"

GetYieldSources ==
    /\ tableRequest.op = "getYieldSources"
    /\ Unserved
    /\ held' = handOver("yieldSources", yieldSources,
                        getYieldSources(yieldSources, tableRequest.args[1]))
    /\ UNCHANGED <<yieldSources, stablecoins, tableRequest, usdCall, now,
                   pricingVars, quoteVars, liquidityVars, riskVars, sessionVars, botVars>>

GetBestYieldSource ==
    /\ tableRequest.op = "getBestYieldSource"
    /\ Unserved
    /\ held' = handOver("yieldSources", yieldSources,
                        getBestYieldSource(yieldSources, tableRequest.args[1],
                                           tableRequest.args[2], tableRequest.args[3]))
    /\ UNCHANGED <<yieldSources, stablecoins, tableRequest, usdCall, now,
                   pricingVars, quoteVars, liquidityVars, riskVars, sessionVars, botVars>>

CalculateExpectedYield ==
    /\ tableRequest.op = "calculateExpectedYield"
    /\ Unserved
    /\ held' = [from |-> "value", refs |-> <<>>,
                seen |-> <<calculateExpectedYield(yieldSources, tableRequest.args[1],
                                                  tableRequest.args[2], tableRequest.args[3])>>]
    /\ UNCHANGED <<yieldSources, stablecoins, tableRequest, usdCall, now,
                   pricingVars, quoteVars, liquidityVars, riskVars, sessionVars, botVars>>

\* updateYieldData(), called periodically: runs to completion, one
\* Math.random() per source
UpdateYieldData ==
    /\ held.from \in {"yieldSources", "value"}
    /\ now < MaxRefreshes
    /\ \E draws \in [1..Len(yieldSources) -> VariationDraws] :
           yieldSources' = updateYieldData(yieldSources, draws, now + 1)
    /\ now' = now + 1
    /\ UNCHANGED <<stablecoins, tableRequest, usdCall, held,
                   pricingVars, quoteVars, liquidityVars, riskVars, sessionVars, botVars>>

\* listStablecoins: enters updateYieldRates and suspends at the first await
\* (or runs through when no stablecoin is yield-bearing)
ListStablecoins ==
    /\ tableRequest.op = "listStablecoins"
    /\ Unserved
    /\ usdCall' = [op |-> "listStablecoins", caller |-> "reader",
                   at |-> nextYieldBearing(stablecoins, 1)]
    /\ UNCHANGED <<yieldSources, stablecoins, tableRequest, held, now,
                   pricingVars, quoteVars, liquidityVars, riskVars, sessionVars, botVars>>

\* updateYieldRates resumes: the awaited rate is written into the object, and
\* the loop suspends at the next yield-bearing stablecoin
UpdateYieldRatesStep ==
    /\ usdCall.op = "listStablecoins"
    /\ usdCall.at <= Len(stablecoins)
    /\ stablecoins' = [stablecoins EXCEPT ![usdCall.at].yieldApy =
                           getYieldRate(stablecoins[usdCall.at].symbol)]
    /\ usdCall' = [usdCall EXCEPT !.at = nextYieldBearing(stablecoins, usdCall.at + 1)]
    /\ UNCHANGED <<yieldSources, tableRequest, held, now,
                   pricingVars, quoteVars, liquidityVars, riskVars, sessionVars, botVars>>

\* listStablecoins returns this.stablecoins, the array itself
ListStablecoinsReturn ==
    /\ usdCall.op = "listStablecoins"
    /\ usdCall.at > Len(stablecoins)
    /\ held' = IF usdCall.caller = "reader"
               THEN handOver("stablecoins", stablecoins, [i \in 1..Len(stablecoins) |-> i])
               ELSE held
    /\ usdCall' = NoCall
    /\ now' = IF usdCall.caller = "reader" THEN now ELSE now + 1
    /\ UNCHANGED <<yieldSources, stablecoins, tableRequest,
                   pricingVars, quoteVars, liquidityVars, riskVars, sessionVars, botVars>>

\* getStablecoin(symbol): returns the object found, or null; for a
\* yield-bearing one it first suspends at await getYieldRate
GetStablecoin ==
    /\ tableRequest.op = "getStablecoin"
    /\ Unserved
    /\ LET at == findStablecoin(stablecoins, tableRequest.args[1])
       IN  IF at # 0 /\ stablecoins[at].isYieldBearing
           THEN /\ usdCall' = [op |-> "getStablecoin", caller |-> "reader", at |-> at]
                /\ held' = held
           ELSE /\ usdCall' = usdCall
                /\ held' = handOver("stablecoins", stablecoins,
                                    IF at = 0 THEN <<>> ELSE <<at>>)
    /\ UNCHANGED <<yieldSources, stablecoins, tableRequest, now,
                   pricingVars, quoteVars, liquidityVars, riskVars, sessionVars, botVars>>

\* getStablecoin resumes: writes the rate into the object and returns it
GetStablecoinResume ==
    /\ usdCall.op = "getStablecoin"
    /\ stablecoins' = [stablecoins EXCEPT ![usdCall.at].yieldApy =
                           getYieldRate(stablecoins[usdCall.at].symbol)]
    /\ held' = handOver("stablecoins", stablecoins', <<usdCall.at>>)
    /\ usdCall' = NoCall
    /\ UNCHANGED <<yieldSources, tableRequest, now,
                   pricingVars, quoteVars, liquidityVars, riskVars, sessionVars, botVars>>

\* another caller's listStablecoins, after the reader was served: a later
\* refresh of the stablecoins
LaterListStablecoins ==
    /\ held.from = "stablecoins"
    /\ usdCall.op = "none"
    /\ now < MaxRefreshes
    /\ usdCall' = [op |-> "listStablecoins", caller |-> "later",
                   at |-> nextYieldBearing(stablecoins, 1)]
    /\ UNCHANGED <<yieldSources, stablecoins, tableRequest, held, now,
                   pricingVars, quoteVars, liquidityVars, riskVars, sessionVars, botVars>>

NextRefresh ==
    \/ GetYieldSources
    \/ GetBestYieldSource
    \/ CalculateExpectedYield
    \/ UpdateYieldData
    \/ ListStablecoins
    \/ UpdateYieldRatesStep
    \/ ListStablecoinsReturn
    \/ GetStablecoin
    \/ GetStablecoinResume
    \/ LaterListStablecoins

SpecRefresh == InitRefresh /\ [][NextRefresh]_vars

\* ---------------------------------------------------------------------------
\* SessionManager: any sequence of calls, as time passes
\* ---------------------------------------------------------------------------
InitSession ==
    /\ SessionIdle
    /\ PricingIdle
    /\ QuoteIdle
    /\ LiquidityIdle
    /\ RiskIdle
    /\ RefreshIdle
    /\ BotIdle

store == [sessions |-> sessions, sessionsByPhone |-> sessionsByPhone]

OthersUnchangedBySession ==
    UNCHANGED <<pricingVars, quoteVars, liquidityVars, riskVars, refreshVars, botVars>>

\* whether the session a lookup is aimed at is there and expired
aimedAtExpired(token) == token \in DOMAIN sessions /\ isExpired(sessions[token], clock)

\* time passes
Tick ==
    /\ clock < MaxTicks
    /\ clock' = clock + 1
    /\ UNCHANGED <<sessions, sessionsByPhone, created, lastCall>>
    /\ OthersUnchangedBySession

\* createSession(phoneNumber, userId, undefined, isVerified): the token is
\* fresh random bytes, named here by the order of creation
CreateSession ==
    /\ Len(created) < MaxSessions
    /\ \E phoneNumber \in Phones, userId \in UserIds, isVerified \in BOOLEAN :
           LET token == Len(created) + 1
               session == [userId |-> userId, phoneNumber |-> phoneNumber,
                           isVerified |-> isVerified, lastActivity |-> clock]
           IN  /\ sessions' = mapSet(sessions, token, session)
               /\ sessionsByPhone' = mapSet(sessionsByPhone, phoneNumber, token)
               /\ created' = Append(created, phoneNumber)
               /\ lastCall' = [op |-> "createSession", at |-> clock, token |-> token, expired |-> FALSE,
                               result |-> NoSession]
    /\ UNCHANGED clock
    /\ OthersUnchangedBySession

GetSession ==
    /\ \E token \in 1..MaxSessions :
           LET got == getSession(store, token, clock)
           IN  /\ sessions' = got.store.sessions
               /\ sessionsByPhone' = got.store.sessionsByPhone
               /\ lastCall' = [op |-> "getSession", at |-> clock, token |-> token,
                               expired |-> aimedAtExpired(token), result |-> got.result]
    /\ UNCHANGED <<clock, created>>
    /\ OthersUnchangedBySession

GetSessionByPhone ==
    /\ \E phoneNumber \in Phones :
           IF phoneNumber \notin DOMAIN sessionsByPhone
           THEN /\ lastCall' = [op |-> "getSessionByPhone", at |-> clock, token |-> 0, expired |-> FALSE,
                                result |-> NoSession]
                /\ UNCHANGED <<sessions, sessionsByPhone>>
           ELSE LET token == sessionsByPhone[phoneNumber]
                    got == getSession(store, token, clock)
                IN  /\ sessions' = got.store.sessions
                    /\ sessionsByPhone' = got.store.sessionsByPhone
                    /\ lastCall' = [op |-> "getSessionByPhone", at |-> clock, token |-> token,
                                    expired |-> aimedAtExpired(token), result |-> got.result]
    /\ UNCHANGED <<clock, created>>
    /\ OthersUnchangedBySession

UpdateSession ==
    /\ \E token \in 1..MaxSessions, updates \in SessionUpdates :
           LET got == updateSession(store, token, updates, clock)
           IN  /\ sessions' = got.store.sessions
               /\ sessionsByPhone' = got.store.sessionsByPhone
               /\ lastCall' = [op |-> "updateSession", at |-> clock, token |-> token,
                               expired |-> aimedAtExpired(token), result |-> got.result]
    /\ UNCHANGED <<clock, created>>
    /\ OthersUnchangedBySession

DeleteSession ==
    /\ \E token \in 1..MaxSessions :
           LET got == deleteSession(store, token)
           IN  /\ sessions' = got.store.sessions
               /\ sessionsByPhone' = got.store.sessionsByPhone
               /\ lastCall' = [op |-> "deleteSession", at |-> clock, token |-> token, expired |-> FALSE,
                               result |-> NoSession]
    /\ UNCHANGED <<clock, created>>
    /\ OthersUnchangedBySession

CleanupExpiredSessions ==
    /\ LET after == cleanupExpiredSessions(store, clock)
       IN  /\ sessions' = after.sessions
           /\ sessionsByPhone' = after.sessionsByPhone
    /\ lastCall' = [op |-> "cleanupExpiredSessions", at |-> clock, token |-> 0, expired |-> FALSE,
                    result |-> NoSession]
    /\ UNCHANGED <<clock, created>>
    /\ OthersUnchangedBySession

NextSession ==
    \/ Tick
    \/ CreateSession
    \/ GetSession
    \/ GetSessionByPhone
    \/ UpdateSession
    \/ DeleteSession
    \/ CleanupExpiredSessions

SpecSession == InitSession /\ [][NextSession]_vars

\* ---------------------------------------------------------------------------
\* WhatsApp bot: webhook requests in flight, interleaved at their awaits
\* ---------------------------------------------------------------------------
InitBot ==
    /\ users \in UserTables
    /\ BotQuiet
    /\ PricingIdle
    /\ QuoteIdle
    /\ LiquidityIdle
    /\ RiskIdle
    /\ RefreshIdle
    /\ SessionIdle

OthersUnchangedByBot ==
    UNCHANGED <<pricingVars, quoteVars, liquidityVars, riskVars, refreshVars, sessionVars>>

\* the reply a request ends with, and the error thrown on the way if any
answerOf(handler, reply, error) ==
    [from |-> handler.from, body |-> handler.body, via |-> handler.via,
     isVerified |-> handler.session.isVerified, afterStart |-> handler.afterStart,
     reply |-> reply, error |-> error]

\* a webhook delivers a message to one of the two controllers, which starts
\* fetching the session
Webhook(h) ==
    /\ handlers[h].pc = "idle"
    /\ received < MaxMessages
    /\ \E via \in Controllers, from \in Phones, body \in MessageBodies :
           handlers' = [handlers EXCEPT ![h] =
                           [IdleHandler EXCEPT !.pc = "handleIncomingMessage", !.via = via,
                                               !.from = from, !.body = body,
                                               !.afterStart = from \in completed]]
    /\ received' = received + 1
    /\ UNCHANGED <<users, wallets, generated, reached, answered, completed>>
    /\ OthersUnchangedByBot

\* WhatsappController.handleIncomingMessage once the session is there: the
\* message is either answered with the verification prompt or passed to
\* BotService.processMessage, which fetches the session again
WhatsappHandleIncomingMessage(h) ==
    /\ handlers[h].pc = "handleIncomingMessage"
    /\ handlers[h].via = "WhatsappController"
    /\ LET got     == getOrCreateSession(users, handlers[h].from)
           handler == [handlers[h] EXCEPT !.session = got.session]
       IN  /\ users' = got.users
           /\ IF controllerRejects(got.session, handler.body)
              THEN /\ answered' = answered \cup {answerOf(handler, getVerificationMessage, "none")}
                   /\ handlers' = [handlers EXCEPT ![h] = IdleHandler]
              ELSE /\ handlers' = [handlers EXCEPT ![h] = [handler EXCEPT !.pc = "processMessage"]]
                   /\ UNCHANGED answered
    /\ UNCHANGED <<wallets, generated, reached, completed, received>>
    /\ OthersUnchangedByBot

\* MessageController.handleIncomingMessage once the session is there: the same
\* check, then the BotService.processMessage(message, session) that has no
\* check of its own
MessageHandleIncomingMessage(h) ==
    /\ handlers[h].pc = "handleIncomingMessage"
    /\ handlers[h].via = "MessageController"
    /\ LET got     == getOrCreateSession(users, handlers[h].from)
           handler == [handlers[h] EXCEPT !.session = got.session]
           command == commandOf(handler.body)
       IN  /\ users' = got.users
           /\ IF controllerRejects(got.session, handler.body)
              THEN /\ answered' = answered \cup {answerOf(handler, getVerificationMessage, "none")}
                   /\ UNCHANGED reached
              ELSE \E outcome \in handleCommand(routeWithoutStart(command), command, got.session) :
                       /\ answered' = answered \cup {answerOf(handler, outcome.reply, "none")}
                       /\ reached' = reached \cup outcome.calls
    /\ handlers' = [handlers EXCEPT ![h] = IdleHandler]
    /\ UNCHANGED <<wallets, generated, completed, received>>
    /\ OthersUnchangedByBot

\* BotService.processMessage(message) up to the command's handler; 'start'
\* for a session without a wallet address goes on into createWallet
ProcessMessage(h) ==
    /\ handlers[h].pc = "processMessage"
    /\ LET got     == getOrCreateSession(users, handlers[h].from)
           handler == [handlers[h] EXCEPT !.session = got.session]
           command == commandOf(handler.body)
       IN  /\ users' = got.users
           /\ IF processMessageRejects(got.session, handler.body)
              THEN /\ answered' = answered \cup {answerOf(handler, getVerificationMessage, "none")}
                   /\ handlers' = [handlers EXCEPT ![h] = IdleHandler]
                   /\ UNCHANGED <<reached, completed>>
              ELSE IF route(command) # "start"
              THEN \E outcome \in handleCommand(route(command), command, got.session) :
                       /\ answered' = answered \cup {answerOf(handler, outcome.reply, "none")}
                       /\ reached' = reached \cup outcome.calls
                       /\ handlers' = [handlers EXCEPT ![h] = IdleHandler]
                       /\ UNCHANGED completed
              ELSE IF got.session.walletAddress = Null
              THEN /\ handlers' = [handlers EXCEPT ![h] = [handler EXCEPT !.pc = "createWallet"]]
                   /\ UNCHANGED <<answered, reached, completed>>
              ELSE /\ answered' = answered \cup {answerOf(handler, WelcomeBack, "none")}
                   /\ completed' = completed \cup {handler.from}
                   /\ handlers' = [handlers EXCEPT ![h] = IdleHandler]
                   /\ UNCHANGED reached
    /\ UNCHANGED <<wallets, generated, received>>
    /\ OthersUnchangedByBot

\* WalletService.createWallet: the existence check and, when no wallet is
\* found, generateWallet up to its first await (Keypair.generate has run)
CreateWallet(h) ==
    /\ handlers[h].pc = "createWallet"
    /\ LET handler == handlers[h]
           userId  == handler.session.userId
       IN  IF findUniqueWallet(wallets, userId) # {}
           THEN /\ answered' = answered \cup
                        {answerOf(handler, ErrorProcessing, "Wallet already exists for this user")}
                /\ handlers' = [handlers EXCEPT ![h] = IdleHandler]
                /\ UNCHANGED generated
           ELSE /\ generated' = Append(generated, userId)
                /\ handlers' = [handlers EXCEPT ![h] =
                                   [handler EXCEPT !.pc = "saveWallet",
                                                   !.publicKey = Keypair_generate(generated, userId)]]
                /\ UNCHANGED answered
    /\ UNCHANGED <<users, wallets, reached, completed, received>>
    /\ OthersUnchangedByBot

\* generateWallet from saveWallet on: the row is saved, or the failure is
\* rethrown as 'Wallet generation failed' and answered by processMessage's catch
SaveWallet(h) ==
    /\ handlers[h].pc = "saveWallet"
    /\ LET handler == handlers[h]
       IN  \E saved \in saveWallet(wallets, handler.session.userId, handler.publicKey) :
               /\ wallets' = saved.rows
               /\ IF saved.threw
                  THEN /\ answered' = answered \cup
                               {answerOf(handler, ErrorProcessing, "Wallet generation failed")}
                       /\ handlers' = [handlers EXCEPT ![h] = IdleHandler]
                  ELSE /\ handlers' = [handlers EXCEPT ![h] = [handler EXCEPT !.pc = "updateUser"]]
                       /\ UNCHANGED answered
    /\ UNCHANGED <<users, generated, reached, completed, received>>
    /\ OthersUnchangedByBot

\* createWallet's prisma.user.update and handleStartCommand's welcome
UpdateUser(h) ==
    /\ handlers[h].pc = "updateUser"
    /\ LET handler == handlers[h]
       IN  /\ users' = [users EXCEPT ![handler.session.userId].walletAddress = handler.publicKey]
           /\ answered' = answered \cup {answerOf(handler, WelcomeCreated, "none")}
           /\ completed' = completed \cup {handler.from}
    /\ handlers' = [handlers EXCEPT ![h] = IdleHandler]
    /\ UNCHANGED <<wallets, generated, reached, received>>
    /\ OthersUnchangedByBot

\* the steps of the requests in flight
HandlerStep ==
    \E h \in 1..MaxHandlers :
        \/ WhatsappHandleIncomingMessage(h)
        \/ MessageHandleIncomingMessage(h)
        \/ ProcessMessage(h)
        \/ CreateWallet(h)
        \/ SaveWallet(h)
        \/ UpdateUser(h)

NextBot ==
    \/ \E h \in 1..MaxHandlers : Webhook(h)
    \/ \E h \in 1..MaxHandlers : WhatsappHandleIncomingMessage(h)
    \/ \E h \in 1..MaxHandlers : MessageHandleIncomingMessage(h)
    \/ \E h \in 1..MaxHandlers : ProcessMessage(h)
    \/ \E h \in 1..MaxHandlers : CreateWallet(h)
    \/ \E h \in 1..MaxHandlers : SaveWallet(h)
    \/ \E h \in 1..MaxHandlers : UpdateUser(h)

SpecBot == InitBot /\ [][NextBot]_vars

\* every request in flight is served on: the event loop resumes each awaited
\* call once it has settled
SpecBotFair == SpecBot /\ WF_vars(HandlerStep)

C3_ImpactMonotoneInAmount ==
    (/\ pricing.op = "calculatePriceImpact"
     /\ prevPrice.valid
     /\ prevPrice.pool = getPoolInfo(request.args[1]).address) =>
        /\ RLe(prevPrice.amountIn, request.args[4]) =>
               RLe(prevPrice.priceImpact, pricing.result.priceImpact)
        /\ RLe(request.args[4], prevPrice.amountIn) =>
               RLe(pricing.result.priceImpact, prevPrice.priceImpact)

\* the same pool priced twice, the second amount and its impact strictly larger
C3_Witness ==
    /\ pricing.op = "calculatePriceImpact"
    /\ prevPrice.valid
    /\ prevPrice.pool = getPoolInfo(request.args[1]).address
    /\ RLt(RZero, prevPrice.amountIn)
    /\ RLt(prevPrice.amountIn, request.args[4])
    /\ RLt(prevPrice.priceImpact, pricing.result.priceImpact)

\* C4: calculatePriceImpact produces a price only when amountIn > 0 and both
\* token indices are valid for the pool; otherwise it fails with InvalidAmount
\* or TokenNotInPool and returns no price.
C4_PriceOnlyForValidInput ==
    pricing.op = "calculatePriceImpact" =>
        LET n == Len(getPoolInfo(request.args[1]).tokens)
        IN  /\ pricing.status = "ok" =>
                   /\ RLt(RZero, request.args[4])
                   /\ request.args[2] \in 0..(n - 1)
                   /\ request.args[3] \in 0..(n - 1)
            /\ ~RLt(RZero, request.args[4]) => pricing.status = "InvalidAmount"
            /\ (RLt(RZero, request.args[4])
                /\ ~(request.args[2] \in 0..(n - 1) /\ request.args[3] \in 0..(n - 1))) =>
                   pricing.status = "TokenNotInPool"

\* ---------------------------------------------------------------------------
\* Route finder: properties
\* ---------------------------------------------------------------------------
\* C5: when registry pools contain both tokens, findOptimalRoute routes
\* directly through one of them, the one with the lowest resulting price impact
\* for the requested amount, ties going to the first in registry order.
C5_DirectRouteLowestImpact ==
    LET both == {i \in 1..Len(PoolNames) :
                    /\ includes(poolData[PoolNames[i]].tokens, request.args[1])
                    /\ includes(poolData[PoolNames[i]].tokens, request.args[2])}
        impactAt(i) == calculatePriceImpact(PoolNames[i], 0, 1, request.args[3]).priceImpact
    IN  (pricing.op = "findOptimalRoute" /\ both # {}) =>
            \E i \in both :
                /\ pricing.status = "ok"
                /\ pricing.result.route = <<request.args[1], request.args[2]>>
                /\ pricing.result.pools = <<PoolNames[i]>>
                /\ \A k \in both : RLe(impactAt(i), impactAt(k))
                /\ \A k \in both : k < i => RLt(impactAt(i), impactAt(k))

\* C6: with no pool containing both tokens and no pair of pools (tokenIn with
\* USDC, USDC with tokenOut), findOptimalRoute fails with NoRouteFound instead
\* of returning a route and an expected output.
C6_NoRouteFound ==
    LET holds(i, a, b) == /\ includes(poolData[PoolNames[i]].tokens, a)
                          /\ includes(poolData[PoolNames[i]].tokens, b)
        idx == 1..Len(PoolNames)
    IN  (/\ pricing.op = "findOptimalRoute"
         /\ ~\E i \in idx : holds(i, request.args[1], request.args[2])
         /\ ~\E i \in idx, k \in idx : /\ holds(i, request.args[1], "USDC")
                                       /\ holds(k, "USDC", request.args[2])) =>
            pricing.status = "NoRouteFound"

\* C7: for a 2-hop route [tokenIn, USDC, tokenOut], findOptimalRoute prices the
\* hops in order, each against a pool containing that hop's two tokens, feeds
\* hop 1's expectedOutput in as hop 2's amountIn, lists both pools and reports
\* the aggregate priceImpact 1 - (1 - impact1)(1 - impact2).
C7_TwoHopAggregation ==
    (pricing.op = "findOptimalRoute" /\ pricing.status = "ok"
     /\ Len(pricing.result.route) = 3) =>
        /\ Len(pricing.result.pools) = 2
        /\ LET p1   == getPoolInfo(pricing.result.pools[1])
               p2   == getPoolInfo(pricing.result.pools[2])
               hop1 == calculatePriceImpact(pricing.result.pools[1], 0, 1, request.args[3])
               hop2 == calculatePriceImpact(pricing.result.pools[2], 0, 1, hop1.expectedOutput)
               f1   == RDiv(hop1.priceImpact, RInt(100))
               f2   == RDiv(hop2.priceImpact, RInt(100))
           IN  /\ includes(p1.tokens, request.args[1]) /\ includes(p1.tokens, "USDC")
               /\ includes(p2.tokens, "USDC") /\ includes(p2.tokens, request.args[2])
               /\ pricing.result.expectedOutput = hop2.expectedOutput
               /\ RDiv(pricing.result.priceImpact, RInt(100)) =
                      RSub(ROne, RMul(RSub(ROne, f1), RSub(ROne, f2)))


\* ---------------------------------------------------------------------------
\* Swap quotes: properties
\* ---------------------------------------------------------------------------
\* C8: a quote's minimum output equals expectedOutput * (1 - slippageTolerance)
\* with the caller-supplied tolerance for every supplied value in [0, 1), and
\* with 0.5% only when the caller supplies none; so minimumOutput <=
\* expectedOutput.
C8_MinimumOutputUsesTolerance ==
    quote.op # "none" =>
        LET supplied == IF quote.op = "TradeService.getQuote" THEN Undefined
                        ELSE quoteRequest.args[Len(quoteRequest.args)]
            used     == IF supplied = Undefined THEN Rat(5, 1000) ELSE supplied
            expected == IF quote.op = "getSwapQuote" THEN quote.result.expectedAmountOut
                        ELSE IF quote.op = "NumeraireService.getQuote"
                             THEN quote.result.expectedAmount
                             ELSE quote.result.expectedToAmount
            minimum  == IF quote.op = "getSwapQuote" THEN quote.result.minAmountOut
                        ELSE IF quote.op = "NumeraireService.getQuote"
                             THEN quote.result.minimumAmount
                             ELSE quote.result.minToAmount
        IN  /\ minimum = RMul(expected, RSub(ROne, used))
            /\ RLe(minimum, expected)

\* C9: quoting is deterministic: a retried request with identical inputs
\* returns the identical quote (expected output, minimum output, price impact,
\* fee and route).
C9_QuotesDeterministic ==
    (quote.op # "none" /\ prevQuote.op = quote.op) =>
        IF quote.op = "TradeService.getQuote"
        THEN /\ quote.result.expectedToAmount = prevQuote.result.expectedToAmount
             /\ quote.result.minToAmount = prevQuote.result.minToAmount
             /\ quote.result.priceImpact = prevQuote.result.priceImpact
             /\ quote.result.route = prevQuote.result.route
        ELSE quote.result = prevQuote.result

\* ---------------------------------------------------------------------------
\* Liquidity: properties
\* ---------------------------------------------------------------------------
\* C10: addLiquidity returns amountsIn[i] = maxAmountsIn[i] * 0.99 for every
\* token and an LP amount computed from the amounts actually taken in:
\* lpMinted = (sum of amountsIn) * 0.95.
C10_LpMintedFromAmountsIn ==
    liquidity.op = "addLiquidity" =>
        LET maxAmountsIn == liqRequest.args[2]
            res          == liquidity.result
        IN  /\ Len(res.amountsIn) = Len(maxAmountsIn)
            /\ \A i \in 1..Len(maxAmountsIn) :
                   res.amountsIn[i] = RMul(maxAmountsIn[i], Rat(99, 100))
            /\ res.lpTokenAmount = RMul(RSum(res.amountsIn), Rat(95, 100))

\* C11: round trip in aggregate: for every deposit X of positive amounts, the
\* sum of amountsOut from removeLiquidity of the full LP amount minted by
\* addLiquidity(X) does not exceed the sum of X.
C11_RoundTripAggregate ==
    (/\ liquidity.op = "removeLiquidity"
     /\ prevDeposit.valid
     /\ liqRequest.args[2] = prevDeposit.lpTokenAmount
     /\ \A i \in 1..Len(prevDeposit.maxAmountsIn) :
            RLt(RZero, prevDeposit.maxAmountsIn[i])) =>
        RLe(RSum(liquidity.result.amountsOut), RSum(prevDeposit.maxAmountsIn))

\* an unequal two-token deposit of positive amounts has been minted and fully
\* redeemed, paying out something
C11_Witness ==
    /\ liquidity.op = "removeLiquidity"
    /\ prevDeposit.valid
    /\ liqRequest.args[2] = prevDeposit.lpTokenAmount
    /\ Len(prevDeposit.maxAmountsIn) = 2
    /\ RLt(RZero, prevDeposit.maxAmountsIn[1])
    /\ RLt(prevDeposit.maxAmountsIn[1], prevDeposit.maxAmountsIn[2])
    /\ RLt(RZero, RSum(liquidity.result.amountsOut))

\* C12: round trip per token: after addLiquidity(maxAmountsIn) followed
\* immediately by removeLiquidity of the full minted LP amount on the same
\* pool, no amountsOut[i] is strictly greater than maxAmountsIn[i] (a token
\* that was not deposited counting as 0), for deposits of positive amounts,
\* unequal ones included.
C12_RoundTripPerToken ==
    (/\ liquidity.op = "removeLiquidity"
     /\ prevDeposit.valid
     /\ liqRequest.args[2] = prevDeposit.lpTokenAmount
     /\ \A i \in 1..Len(prevDeposit.maxAmountsIn) :
            RLt(RZero, prevDeposit.maxAmountsIn[i])) =>
        \A i \in 1..Len(liquidity.result.amountsOut) :
            RLe(liquidity.result.amountsOut[i],
                IF i <= Len(prevDeposit.maxAmountsIn)
                THEN prevDeposit.maxAmountsIn[i] ELSE RZero)

\* C13: removeLiquidity returns exactly one amount per token of the pool (as
\* many as the pool registry lists for that pool), each the redeemed value
\* lpAmount * 1.02 divided by that token count.
C13_OneAmountPerPoolToken ==
    liquidity.op = "removeLiquidity" =>
        LET n == Len(getPoolInfo(liqRequest.args[1]).tokens)
        IN  /\ Len(liquidity.result.amountsOut) = n
            /\ \A i \in 1..Len(liquidity.result.amountsOut) :
                   liquidity.result.amountsOut[i] =
                       RDiv(RMul(liqRequest.args[2], Rat(102, 100)), RInt(n))

\* C14: addLiquidity fails with InvalidAmount, minting no LP tokens and
\* returning no amountsIn, whenever any maxAmountsIn[i] <= 0.
C14_AddRejectsNonPositive ==
    (/\ liquidity.op = "addLiquidity"
     /\ \E i \in 1..Len(liqRequest.args[2]) : RLe(liqRequest.args[2][i], RZero)) =>
        liquidity.status = "InvalidAmount"

\* C15: removeLiquidity pays out only when lpAmount <= lpTotalSupply, the
\* supply being the LP amount minted so far; a larger redemption fails with
\* InsufficientLiquidity and returns no amountsOut.
C15_RemoveWithinSupply ==
    liquidity.op = "removeLiquidity" =>
        LET lpTotalSupply == IF prevDeposit.valid THEN prevDeposit.lpTokenAmount
                             ELSE RZero
        IN  IF RLe(liqRequest.args[2], lpTotalSupply)
            THEN liquidity.status = "ok"
            ELSE liquidity.status = "InsufficientLiquidity"

\* ---------------------------------------------------------------------------
\* Risk analyzer: properties
\* ---------------------------------------------------------------------------
RiskDone == risk.op = "calculateRiskMetrics"

PositiveTotal == RiskDone /\ RLt(RZero, risk.result.totalValue)

\* C16: the per-asset risk contributions (riskExposure) returned for a
\* portfolio with totalValue > 0 and an asset of positive volatility are
\* finite and sum to 100, portfolios of two or more assets included.
C16_ExposureSumsTo100 ==
    (/\ PositiveTotal
     /\ \E sym \in DOMAIN risk.result.riskExposure : RLt(RZero, volatilityOf(sym))) =>
        LET exposure == risk.result.riskExposure
            symbols  == DOMAIN exposure
            keys     == riskTrace.assets
        IN  /\ \A sym \in symbols : Finite(exposure[sym].c)
            \* every non-zero contribution carries the volatility's square root,
            \* so the sum is rational only when the volatility is
            /\ \A sym \in symbols : exposure[sym].rs = <<>>
            /\ RSum([n \in 1..Len(keys) |-> exposure[keys[n]].c]) = RInt(100)

C18_WeightsSumToOne ==
    PositiveTotal =>
        RSum([n \in 1..Len(riskTrace.assets) |-> riskTrace.weights[riskTrace.assets[n]]]) = ROne

\* C19: when the volatility of a portfolio with totalValue > 0 is 0, the
\* Sharpe ratio returned is a sentinel and not the quotient of a division by
\* zero.
C19_SharpeNotDividedByZero ==
    (PositiveTotal /\ risk.result.volatility = Num(RZero)) =>
        risk.result.sharpeRatio.c \notin {Infinity, NegInfinity}

\* C20: for a portfolio whose total value is 0, the empty one included, every
\* metric returned is 0, the risk-contribution map is empty, and neither the
\* variance nor the expected-return nor the risk-exposure computation ran.
C20_ZeroTotalGivesEmptyMetrics ==
    (RiskDone /\ totalValueOf(riskRequest.args[1]) = RZero) =>
        /\ risk.result.totalValue = RZero
        /\ risk.result.volatility = Num(RZero)
        /\ risk.result.sharpeRatio = Num(RZero)
        /\ risk.result.maxDrawdown = Num(RZero)
        /\ risk.result.valueAtRisk = Num(RZero)
        /\ DOMAIN risk.result.riskExposure = {}
        /\ riskTrace.called \cap {"calculatePortfolioVolatility", "calculateExpectedReturn",
                                  "calculateRiskExposure"} = {}

C20_Witness ==
    /\ RiskDone
    /\ Len(riskRequest.args[1]) = 2
    /\ totalValueOf(riskRequest.args[1]) = RZero
    /\ "getEmptyRiskMetrics" \in riskTrace.called

C22_DefaultedCorrelationFlagged ==
    (/\ PositiveTotal
     /\ \E i, j \in 1..Len(riskTrace.assets) :
           /\ i # j
           /\ correlationEntry(riskTrace.assets[i], riskTrace.assets[j]) = RZero
           /\ correlationEntry(riskTrace.assets[j], riskTrace.assets[i]) = RZero) =>
        /\ "estimated" \in DOMAIN risk.result
        /\ risk.result["estimated"] = TRUE

\* C23: for every token pair and every amount calculateSlippage returns a
\* number within [0.001, 0.05]; for amount 10,000 and two unlisted tokens it
\* returns 0.005.
C23_SlippageWithinBounds ==
    risk.op = "calculateSlippage" =>
        /\ Finite(risk.result.c)
        /\ RLe(RZero, risk.result.c)
        /\ RLe(RMul(Rat(1, 1000), Rat(1, 1000)), squareOf(risk.result))
        /\ RLe(squareOf(risk.result), RMul(Rat(5, 100), Rat(5, 100)))
        /\ riskRequest.args = <<"DAI", "DAI", RInt(10 * 1000)>> =>
               risk.result = Num(Rat(5, 1000))

\* ---------------------------------------------------------------------------
\* Refreshable tables: properties
\* ---------------------------------------------------------------------------
\* what the caller reads now in the objects it was handed
callerView ==
    IF held.from = "yieldSources" THEN [k \in 1..Len(held.refs) |-> yieldSources[held.refs[k]]]
    ELSE IF held.from = "stablecoins" THEN [k \in 1..Len(held.refs) |-> stablecoins[held.refs[k]]]
    ELSE held.seen

\* C24: a result handed to a caller does not change under a later refresh,
\* and while a refresh of the stablecoins is suspended the table holds either
\* all the values from before it or all the values it writes.
C24_SnapshotIsolation ==
    /\ callerView = held.seen
    /\ usdCall.op = "listStablecoins" =>
           \/ stablecoins = InitialStablecoins
           \/ \A i \in 1..Len(stablecoins) :
                  stablecoins[i].isYieldBearing =>
                      stablecoins[i].yieldApy = getYieldRate(stablecoins[i].symbol)

\* ---------------------------------------------------------------------------
\* SessionManager: properties
\* ---------------------------------------------------------------------------
Lookups == {"getSession", "getSessionByPhone", "updateSession"}

\* C25: a lookup aimed at a session whose lastActivity is more than 24 hours
\* old returns null and leaves that session in neither the token map nor the
\* phone index; a lookup that returns a session has set its lastActivity to
\* the time of the call.
C25_NoExpiredSessionReturned ==
    lastCall.op \in Lookups =>
        /\ lastCall.expired =>
               /\ lastCall.result = NoSession
               /\ lastCall.token \notin DOMAIN sessions
               /\ \A phone \in DOMAIN sessionsByPhone : sessionsByPhone[phone] # lastCall.token
        /\ lastCall.result.found =>
               /\ lastCall.result.session.lastActivity = lastCall.at
               /\ lastCall.token \in DOMAIN sessions
               /\ sessions[lastCall.token].lastActivity = lastCall.at

\* C26: every entry phone -> token of the phone index refers to a token of
\* the session map whose stored phoneNumber is that phone.
C26_PhoneIndexConsistent ==
    \A phone \in DOMAIN sessionsByPhone :
        /\ sessionsByPhone[phone] \in DOMAIN sessions
        /\ sessions[sessionsByPhone[phone]].phoneNumber = phone

\* C27: the session most recently created for a phone number, as long as it
\* is stored under that number and has not expired, is the one the phone
\* index gives for it.
C27_LatestSessionRetrievable ==
    \A phone \in Phones :
        LET mine == {t \in 1..Len(created) : created[t] = phone}
        IN  mine # {} =>
                LET latest == CHOOSE t \in mine : \A u \in mine : u <= t
                IN  (/\ latest \in DOMAIN sessions
                     /\ sessions[latest].phoneNumber = phone
                     /\ ~isExpired(sessions[latest], clock)) =>
                        /\ phone \in DOMAIN sessionsByPhone
                        /\ sessionsByPhone[phone] = latest

\* C28: at most one wallet is ever generated per user: however the createWallet
\* calls for a user interleave, Keypair.generate runs at most once for that
\* user.
C28_AtMostOneWalletPerUser ==
    \A userId \in Phones : Cardinality(generatedFor(generated, userId)) <= 1

\* C29: for a session that is not verified no swap or portfolio command is
\* executed: no call to TradeService.getQuote, TradeService.executeSwap or
\* PortfolioService.getPortfolio is made for it, and every message whose body
\* is not 'start' is answered with the verification prompt.
C29_UnverifiedNeverReachServices ==
    /\ \A call \in reached : call.isVerified
    /\ \A a \in answered :
           (~a.isVerified /\ a.body # startText) => a.reply = getVerificationMessage

\* an unverified user's swap command was answered with the prompt by the
\* controller whose BotService has no check of its own, while a verified
\* user's swap went through to the trade service
C29_Witness ==
    /\ \E a \in answered :
           /\ ~a.isVerified
           /\ a.body = swapText
           /\ a.via = "MessageController"
           /\ a.reply = getVerificationMessage
    /\ \E call \in reached : call.service = "TradeService.executeSwap"

\* a 'help', 'portfolio' or 'swap' message
isCommand(body) == routeWithoutStart(commandOf(body)) # "unknown"

\* C30: once an unverified user's 'start' has been answered with a welcome,
\* a later 'help', 'portfolio' or 'swap' message of that user is eventually
\* processed as a command, not answered with the verification prompt.
C30_OnboardingCompletes ==
    \A from \in Phones :
        (\E h \in 1..MaxHandlers :
            /\ handlers[h].pc # "idle"
            /\ handlers[h].from = from
            /\ handlers[h].afterStart
            /\ isCommand(handlers[h].body)
            /\ ~users[from].isVerified)
        ~> (\E a \in answered :
               /\ a.from = from
               /\ a.afterStart
               /\ isCommand(a.body)
               /\ a.reply # getVerificationMessage)

====
